---- MODULE Spec2Model ----
(***************************************************************************)
(* Storage layer of the economic-data ingestion pipeline: the canonical    *)
(* record (EconomicData), the storage mapper (DBModelMapper), the two      *)
(* uploaders (AWSUploader over DynamoDBClient, SQLiteUploader), the upload *)
(* use case and the read path (EconomicDataRepository).                    *)
(*                                                                         *)
(* Python values are tagged records ([t |-> "str", v |-> ...]) so that     *)
(* values of different Python types can be compared.  Python strings that  *)
(* the code formats, parses or matches are sequences of one-character      *)
(* strings; dictionary keys and opaque labels are TLA+ strings.            *)
(***************************************************************************)
EXTENDS Integers, Sequences, FiniteSets, TLC

VARIABLES
    backend,        \* DB_BACKEND of the run: "aws" or "sqlite"
    table,          \* DynamoDB table: the set of items it holds
    economic_data,  \* SQLite table economic_data: the committed rows
    conn,           \* rows as seen inside the open sqlite3 connection
    pc,             \* position of the (single-threaded) program
    op,             \* the public operation in progress or last returned
    data,           \* upload's argument: a sequence of EconomicData
    db_items,       \* AWSUploader.upload: the mapped items
    i,              \* loop index (0-based offset of the next chunk or row)
    success,        \* AWSUploader.upload's success flag
    calls,          \* backend calls made by the current operation, in order
    ret,            \* what the last operation returned (or raised)
    before,         \* the store's content when the current operation began
    written,        \* last record written under each composite triple
    mapper_arg,     \* DBModelMapper round trip: the record given to to_db_item
    mapper_item,    \* ... the item to_db_item returned
    mapper_ret,     \* ... the record from_db_item returned
    mapper_pc,      \* ... position in the round trip
    preprocessor,   \* the preprocessor instance: its variant and what it loaded
    pp_country_code,\* process's argument country_code
    raw_data,       \* process's argument raw_data
    processed_data, \* process: the records appended so far
    metric_index,   \* process: how many metrics of raw_data the loop has done
    metric_log,     \* what each metric done so far came to
    pp_pc,          \* position in process
    pp_ret,         \* what process returned
    first_ret,      \* what the first of two calls with the same arguments returned
    main_pc,        \* position in main and in country_menu
    uploader,       \* main: the uploader built at startup
    ensured,        \* whether the SQLite file holds the table economic_data
    selected,       \* main: the country code selected
    menu_raw_data,  \* country_menu: the local raw_data of the pipeline run
    menu_processed_data, \* country_menu: the local processed_data of the pipeline run
    runs,           \* how many pipeline runs were started
    call_log        \* the calls main and country_menu made on their collaborators

vars == <<backend, table, economic_data, conn, pc, op, data, db_items, i,
          success, calls, ret, before, written,
          mapper_arg, mapper_item, mapper_ret, mapper_pc,
          preprocessor, pp_country_code, raw_data, processed_data, metric_index,
          metric_log, pp_pc, pp_ret, first_ret,
          main_pc, uploader, ensured, selected, menu_raw_data, menu_processed_data,
          runs, call_log>>

mainVars == <<main_pc, uploader, ensured, selected, menu_raw_data, menu_processed_data,
              runs, call_log>>

processVars == <<preprocessor, pp_country_code, raw_data, processed_data, metric_index,
                 metric_log, pp_pc, pp_ret, first_ret>>

storeVars == <<backend, table, economic_data, conn, pc, op, data, db_items, i,
               success, calls, ret, before, written>>

mapperVars == <<mapper_arg, mapper_item, mapper_ret, mapper_pc>>

-----------------------------------------------------------------------------
(* Bounds of the model *)

\* longest data list of a metric built from every choice of the core points
MaxPoints == 2

\* most decimal digits of an integer the model computes with
MaxIntDigits == 9

\* most keys a metadata mapping of the round-trip inputs holds
MaxMetaKeys == 1

\* longest explicitly enumerated upload list
MaxLen == 2

\* longest upload list (the cyclic lists reach it)
MaxRecords == 53

-----------------------------------------------------------------------------
(* Python values *)

None == [t |-> "none"]

Str(s) == [t |-> "str", v |-> s]

PyInt(n) == [t |-> "int", v |-> n]

Float(n) == [t |-> "float", v |-> n]

Bool(b) == [t |-> "bool", v |-> b]

Date(y, m, d) == [t |-> "date", year |-> y, month |-> m, day |-> d]

Dict(f) == [t |-> "dict", v |-> f]

List(s) == [t |-> "list", v |-> s]

\* a raised exception, as the outcome of a call
Raise(e) == [t |-> "raise", exc |-> e]

IsRaise(x) == x.t = "raise"

EmptyDict == [k \in {} |-> None]

\* a presence test that passes over None alone
IsNotNone(v) == v.t # "none"

\* bool(v): Python truthiness
Truthy(v) ==
    CASE v.t = "none" -> FALSE
      [] v.t = "str" -> v.v # <<>>
      [] v.t = "int" -> v.v # 0
      [] v.t = "float" -> ("v" \in DOMAIN v) => v.v # 0
      [] v.t = "bool" -> v.v
      [] v.t = "dict" -> DOMAIN v.v # {}
      [] v.t = "list" -> v.v # <<>>
      [] OTHER -> TRUE

-----------------------------------------------------------------------------
(* Strings as sequences of characters *)

Digits == <<"0", "1", "2", "3", "4", "5", "6", "7", "8", "9">>

IsDigit(c) == \E n \in 1..10 : Digits[n] = c

DigitVal(c) == (CHOOSE n \in 1..10 : Digits[n] = c) - 1

\* the decimal digits of n >= 0, at least w of them (zero padded): "%0wd"
RECURSIVE ZeroPad(_, _)
ZeroPad(n, w) ==
    IF n < 10 /\ w <= 1 THEN <<Digits[n + 1]>>
    ELSE ZeroPad(n \div 10, w - 1) \o <<Digits[(n % 10) + 1]>>

\* int(s) for a string of decimal digits
RECURSIVE ParseInt(_)
ParseInt(s) ==
    IF s = <<>> THEN 0
    ELSE 10 * ParseInt(SubSeq(s, 1, Len(s) - 1)) + DigitVal(s[Len(s)])

AllDigits(s) == \A n \in 1..Len(s) : IsDigit(s[n])

\* the characters the model's strings use, in ASCII order
Chars == <<" ", "#", "%", "+", ",", "-", ".", "/",
           "0", "1", "2", "3", "4", "5", "6", "7", "8", "9",
           "A", "B", "C", "D", "E", "F", "G", "H", "I", "J", "K", "L", "M",
           "N", "O", "P", "Q", "R", "S", "T", "U", "V", "W", "X", "Y", "Z",
           "_",
           "a", "b", "c", "d", "e", "f", "g", "h", "i", "j", "k", "l", "m",
           "n", "o", "p", "q", "r", "s", "t", "u", "v", "w", "x", "y", "z">>

Ord(c) == CHOOSE n \in 1..Len(Chars) : Chars[n] = c

UpperFirst == Ord("A")

LowerFirst == Ord("a")

\* str.lower() / SQL LOWER() on one character
LowerChar(c) ==
    IF Ord(c) >= UpperFirst /\ Ord(c) < UpperFirst + 26
    THEN Chars[Ord(c) - UpperFirst + LowerFirst]
    ELSE c

Lower(s) == [n \in 1..Len(s) |-> LowerChar(s[n])]

\* str.upper() on one character
UpperChar(c) ==
    IF Ord(c) >= LowerFirst /\ Ord(c) < LowerFirst + 26
    THEN Chars[Ord(c) - LowerFirst + UpperFirst]
    ELSE c

Upper(s) == [n \in 1..Len(s) |-> UpperChar(s[n])]

\* str.capitalize(): the first character upper case, the others lower case
Capitalize(s) == [n \in 1..Len(s) |-> IF n = 1 THEN UpperChar(s[n]) ELSE LowerChar(s[n])]

\* `u in s` on strings
Contains(s, u) == \E k \in 0..(Len(s) - Len(u)) : SubSeq(s, k + 1, k + Len(u)) = u

\* s.replace(c, "") for a character c
Without(s, c) == SelectSeq(s, LAMBDA x : x # c)

\* str.strip(), and what float() and int() do to the blanks around a literal
RECURSIVE LStrip(_)
LStrip(s) == IF s # <<>> /\ s[1] = " " THEN LStrip(Tail(s)) ELSE s

RECURSIVE RStrip(_)
RStrip(s) ==
    IF s # <<>> /\ s[Len(s)] = " " THEN RStrip(SubSeq(s, 1, Len(s) - 1)) ELSE s

Strip(s) == RStrip(LStrip(s))

\* s < u in byte order (SQLite's BINARY collation, Python's str order)
RECURSIVE StrLess(_, _)
StrLess(s, u) ==
    IF u = <<>> THEN FALSE
    ELSE IF s = <<>> THEN TRUE
    ELSE IF s[1] # u[1] THEN Ord(s[1]) < Ord(u[1])
    ELSE StrLess(Tail(s), Tail(u))

-----------------------------------------------------------------------------
(* datetime.date *)

IsLeap(y) == (y % 4 = 0 /\ y % 100 # 0) \/ y % 400 = 0

DaysInMonth(y, m) ==
    IF m = 2 THEN (IF IsLeap(y) THEN 29 ELSE 28)
    ELSE IF m \in {4, 6, 9, 11} THEN 30 ELSE 31

ValidDate(y, m, d) ==
    /\ y >= 1 /\ y <= 9999
    /\ m >= 1 /\ m <= 12
    /\ d >= 1 /\ d <= DaysInMonth(y, m)

\* date.isoformat(): "%04d-%02d-%02d"
IsoFormat(d) ==
    ZeroPad(d.year, 4) \o <<"-">> \o ZeroPad(d.month, 2) \o <<"-">> \o ZeroPad(d.day, 2)

\* date.fromisoformat(s): YYYY-MM-DD, ValueError otherwise
FromIsoFormat(s) ==
    IF /\ Len(s) = 10
       /\ s[5] = "-" /\ s[8] = "-"
       /\ AllDigits(SubSeq(s, 1, 4))
       /\ AllDigits(SubSeq(s, 6, 7))
       /\ AllDigits(SubSeq(s, 9, 10))
       /\ ValidDate(ParseInt(SubSeq(s, 1, 4)), ParseInt(SubSeq(s, 6, 7)),
                    ParseInt(SubSeq(s, 9, 10)))
    THEN Date(ParseInt(SubSeq(s, 1, 4)), ParseInt(SubSeq(s, 6, 7)),
              ParseInt(SubSeq(s, 9, 10)))
    ELSE Raise("ValueError")

\* date(year=y, month=m, day=d) on Python values
MakeDate(y, m, d) ==
    IF y.t # "int" \/ m.t # "int" \/ d.t # "int" THEN Raise("TypeError")
    ELSE IF ~ValidDate(y.v, m.v, d.v) THEN Raise("ValueError")
    ELSE Date(y.v, m.v, d.v)

-----------------------------------------------------------------------------
(* int(), float() and datetime.strptime() on strings *)

\* digitpart of a numeric literal: digits, single underscores between them allowed
DigitPart(s) ==
    /\ s # <<>>
    /\ IsDigit(s[1]) /\ IsDigit(s[Len(s)])
    /\ \A n \in 1..Len(s) : IsDigit(s[n]) \/ s[n] = "_"
    /\ \A n \in 1..(Len(s) - 1) : ~(s[n] = "_" /\ s[n + 1] = "_")

\* the digits of a digitpart without leading zeros
RECURSIVE DropZeros(_)
DropZeros(s) == IF s # <<>> /\ s[1] = "0" THEN DropZeros(Tail(s)) ELSE s

Significant(s) == DropZeros(Without(s, "_"))

\* the largest C int: datetime's arguments must fit it
CIntMax == 2147483647

\* an int beyond the integers the model computes with
HugeInt == [t |-> "int", huge |-> TRUE]

\* a sign in front of a literal
Signed(s) == s # <<>> /\ s[1] \in {"+", "-"}

\* int(s) for a string s
int(s) ==
    LET body  == Strip(s)
        digits == IF Signed(body) THEN Tail(body) ELSE body
    IN  IF ~DigitPart(digits) THEN Raise("ValueError")
        ELSE IF Len(Significant(digits)) > MaxIntDigits THEN HugeInt
        ELSE IF body[1] = "-" THEN PyInt(0 - ParseInt(Significant(digits)))
        ELSE PyInt(ParseInt(Significant(digits)))

\* a float that is not finite: "nan", "inf" or "-inf"
Special(x) == [t |-> "float", special |-> x]

IsFinite(x) == "special" \notin DOMAIN x

\* the finite float n / 10^k
Decimal(n, k) == IF k = 0 THEN Float(n) ELSE [t |-> "float", v |-> n, scale |-> k]

RECURSIVE Pow10(_)
Pow10(k) == IF k = 0 THEN 1 ELSE 10 * Pow10(k - 1)

Abs(n) == IF n < 0 THEN 0 - n ELSE n

\* the float n / 10^k in one form: the trailing zeros of n cancelled, and an integer
\* the model computes with multiplied out
RECURSIVE Normal(_, _)
Normal(n, k) ==
    IF n = 0 THEN Float(0)
    ELSE IF n % 10 = 0 THEN Normal(n \div 10, k - 1)
    ELSE IF k < 0 /\ Len(ZeroPad(Abs(n), 1)) - k <= MaxIntDigits
         THEN Float(n * Pow10(0 - k))
    ELSE Decimal(n, k)

\* the decimal exponents of the largest double (1.7976931348623157e308) and of
\* the smallest (5e-324)
MaxFloatExponent == 308

MinFloatExponent == 0 - 324

\* the digits from which a number of the largest exponent rounds to infinity
DoubleMaxDigits ==
    <<"1", "7", "9", "7", "6", "9", "3", "1", "3", "4", "8", "6", "2", "3", "1", "5", "8">>

\* the first position of s that holds a character of set cs, or 0
Find(s, cs) ==
    IF \E n \in 1..Len(s) : s[n] \in cs
    THEN CHOOSE n \in 1..Len(s) : s[n] \in cs /\ \A m \in 1..(n - 1) : s[m] \notin cs
    ELSE 0

nan == <<"n", "a", "n">>

inf == <<"i", "n", "f">>

infinity == <<"i", "n", "f", "i", "n", "i", "t", "y">>

\* the float of the significant digits of a literal, x its exponent and fp the
\* digits after its point. magnitude is the decimal exponent of the leading digit
FloatOf(neg, fp, digits, x, magnitude) ==
    IF magnitude > MaxFloatExponent + 1 THEN Special(IF neg THEN "-inf" ELSE "inf")
    ELSE IF magnitude = MaxFloatExponent + 1 /\ ~StrLess(digits, DoubleMaxDigits)
         THEN Special(IF neg THEN "-inf" ELSE "inf")
    ELSE IF magnitude < MinFloatExponent + 1 THEN Float(0)
    ELSE Normal((IF neg THEN 0 - 1 ELSE 1) * ParseInt(digits), Len(Without(fp, "_")) - x.v)

\* decimal [exponent]: ip and fp are the digits before and after the point, and
\* x = int(expo)
DecimalLiteral(neg, ip, fp, digits, expo, x) ==
    IF \/ ~(ip = <<>> \/ DigitPart(ip))
       \/ ~(fp = <<>> \/ DigitPart(fp))
       \/ (ip = <<>> /\ fp = <<>>)
       \/ IsRaise(x)
       \/ Find(expo, {" "}) # 0
    THEN Raise("ValueError")
    ELSE IF digits = <<>> THEN Float(0)
    ELSE IF "huge" \in DOMAIN x
         THEN (IF Signed(expo) /\ expo[1] = "-" THEN Float(0)
               ELSE Special(IF neg THEN "-inf" ELSE "inf"))
    ELSE FloatOf(neg, fp, digits, x, Len(digits) - Len(Without(fp, "_")) + x.v)

\* the mantissa split at its point, at position dot
PointAt(neg, mant, dot, expo) ==
    DecimalLiteral(neg,
                   IF dot = 0 THEN mant ELSE SubSeq(mant, 1, dot - 1),
                   IF dot = 0 THEN <<>> ELSE SubSeq(mant, dot + 1, Len(mant)),
                   Significant(IF dot = 0 THEN mant
                               ELSE SubSeq(mant, 1, dot - 1)
                                    \o SubSeq(mant, dot + 1, Len(mant))),
                   expo, int(expo))

Mantissa(neg, mant, expo) == PointAt(neg, mant, Find(mant, {"."}), expo)

\* the number split at its "e", at position e: mantissa and exponent
ExponentAt(neg, number, e) ==
    Mantissa(neg, IF e = 0 THEN number ELSE SubSeq(number, 1, e - 1),
             IF e = 0 THEN <<"0">> ELSE SubSeq(number, e + 1, Len(number)))

\* the literal after its sign, lower its lower case
Named(neg, number, lower) ==
    IF lower = nan THEN Special("nan")
    ELSE IF lower \in {inf, infinity} THEN Special(IF neg THEN "-inf" ELSE "inf")
    ELSE ExponentAt(neg, number, Find(number, {"e", "E"}))

Unsigned(neg, number) == Named(neg, number, Lower(number))

\* the literal without the blanks around it
Literal(body) ==
    Unsigned(Signed(body) /\ body[1] = "-", IF Signed(body) THEN Tail(body) ELSE body)

\* float(s) for a string s: [sign] (nan | inf | infinity | decimal [exponent])
ParseFloat(s) == Literal(Strip(s))

\* float(v) for a Python value v
float(v) ==
    CASE v.t = "str" -> ParseFloat(v.v)
      [] v.t = "float" -> v
      [] v.t = "int" -> Float(v.v)
      [] v.t = "bool" -> Float(IF v.v THEN 1 ELSE 0)
      [] OTHER -> Raise("TypeError")

\* the strings a directive of a strptime format matches, as the alternatives of
\* its regular expression in order: w characters, digits of a value in lo..hi,
\* after a blank when pad is set
Directive(c) ==
    CASE c = "%Y" -> <<[w |-> 4, lo |-> 0, hi |-> 9999, pad |-> FALSE]>>
      [] c = "%m" -> <<[w |-> 2, lo |-> 10, hi |-> 12, pad |-> FALSE],
                       [w |-> 2, lo |-> 1, hi |-> 9, pad |-> FALSE],
                       [w |-> 1, lo |-> 1, hi |-> 9, pad |-> FALSE]>>
      [] c = "%d" -> <<[w |-> 2, lo |-> 30, hi |-> 31, pad |-> FALSE],
                       [w |-> 2, lo |-> 10, hi |-> 29, pad |-> FALSE],
                       [w |-> 2, lo |-> 1, hi |-> 9, pad |-> FALSE],
                       [w |-> 1, lo |-> 1, hi |-> 9, pad |-> FALSE],
                       [w |-> 2, lo |-> 1, hi |-> 9, pad |-> TRUE]>>

IsDirective(c) == c \in {"%Y", "%m", "%d"}

\* the digits an alternative takes from the front of s
AltDigits(alt, s) == IF alt.pad THEN SubSeq(s, 2, alt.w) ELSE SubSeq(s, 1, alt.w)

AltMatches(alt, s) ==
    /\ Len(s) >= alt.w
    /\ alt.pad => s[1] = " "
    /\ AllDigits(AltDigits(alt, s))
    /\ ParseInt(AltDigits(alt, s)) >= alt.lo
    /\ ParseInt(AltDigits(alt, s)) <= alt.hi

NoMatch == [ok |-> FALSE]

\* the regular expression of strptime: the first way, in the order a backtracking
\* matcher tries them, to match format fmt at the front of s; found holds the
\* fields read so far
RECURSIVE Match(_, _, _), TryAlts(_, _, _, _, _)
Match(fmt, s, found) ==
    IF fmt = <<>> THEN [ok |-> TRUE, found |-> found, rest |-> s]
    ELSE IF IsDirective(Head(fmt)) THEN TryAlts(Head(fmt), 1, Tail(fmt), s, found)
    ELSE IF s # <<>> /\ s[1] = Head(fmt) THEN Match(Tail(fmt), Tail(s), found)
    ELSE NoMatch

TryAlts(c, k, fmt, s, found) ==
    IF k > Len(Directive(c)) THEN NoMatch
    ELSE LET alt == Directive(c)[k]
             r == IF AltMatches(alt, s)
                  THEN Match(fmt, SubSeq(s, alt.w + 1, Len(s)),
                             [found EXCEPT ![c] = ParseInt(AltDigits(alt, s))])
                  ELSE NoMatch
         IN  IF r.ok THEN r ELSE TryAlts(c, k + 1, fmt, s, found)

\* a match after which trailing text does not count
NothingUnconverted(rest) == <<>>

\* the trailing text a match leaves: none when the whole string must convert
Unconverted(rest) == rest

\* the date of a match r of the regular expression
Converted(r) ==
    IF ~r.ok THEN Raise("ValueError")
    ELSE IF Unconverted(r.rest) # <<>> THEN Raise("ValueError")
    ELSE IF ~ValidDate(r.found["%Y"], r.found["%m"], r.found["%d"])
         THEN Raise("ValueError")
    ELSE Date(r.found["%Y"], r.found["%m"], r.found["%d"])

\* datetime.strptime(s, fmt).date(): the date, or ValueError when the string does
\* not match, text remains after the match, or the fields are no calendar date
strptime(s, fmt) ==
    Converted(Match(fmt, s, [c \in {"%Y", "%m", "%d"} |-> IF c = "%Y" THEN 1900 ELSE 1]))

ISO == <<"%Y", "-", "%m", "-", "%d">>

COMPACT == <<"%Y", "%m", "%d">>

DMY == <<"%d", "/", "%m", "/", "%Y">>

YEARMONTH == <<"%Y", "%m">>

-----------------------------------------------------------------------------
(* EconomicData *)

StandardRecordFields ==
    {"country_code", "country_name", "indicator_id", "indicator_name", "value",
     "date", "unit", "frequency", "source", "revision_number", "currency"}

EconomicData(cc, cn, iid, iname, val, dt, freq, un, src, rev, cur, md) ==
    [t |-> "EconomicData", country_code |-> cc, country_name |-> cn, indicator_id |-> iid,
     indicator_name |-> iname, value |-> val, date |-> dt, frequency |-> freq,
     unit |-> un, source |-> src, revision_number |-> rev, currency |-> cur,
     metadata |-> md]

-----------------------------------------------------------------------------
(* DBModelMapper *)

\* str(v) as an f-string formats a field
Format(v) ==
    CASE v.t = "str" -> v.v
      [] v.t = "none" -> <<"N", "o", "n", "e">>
      [] v.t = "int" -> ZeroPad(v.v, 1)
      [] OTHER -> <<"?">>

COUNTRY == <<"C", "O", "U", "N", "T", "R", "Y", "#">>

INDICATOR == <<"I", "N", "D", "I", "C", "A", "T", "O", "R", "#">>

\* DBModelMapper._format_date
format_date(date_obj) == IsoFormat(date_obj)

\* DBModelMapper._parse_date
parse_date(date_str) == FromIsoFormat(date_str)

\* item.get(k, default)
Get(item, k, default) == IF k \in DOMAIN item.v THEN item.v[k] ELSE default

\* {**a, **b}: the entries of b override those of a
Merge(a, b) ==
    [k \in DOMAIN a \cup DOMAIN b |-> IF k \in DOMAIN b THEN b[k] ELSE a[k]]

\* the display's own entries, before the metadata is spread over them
ItemFields(r) ==
    [PK |-> Str(COUNTRY \o Format(r.country_code)),
     SK |-> Str(INDICATOR \o Format(r.indicator_id) \o <<"#">> \o format_date(r.date)),
     country_code |-> r.country_code,
     country_name |-> r.country_name,
     indicator_id |-> r.indicator_id,
     indicator_name |-> r.indicator_name,
     value |-> r.value,
     date |-> Str(format_date(r.date)),
     unit |-> r.unit,
     frequency |-> r.frequency,
     source |-> r.source,
     year |-> PyInt(r.date.year),
     month |-> PyInt(r.date.month),
     day |-> PyInt(r.date.day),
     revision_number |-> r.revision_number,
     currency |-> r.currency]

\* DBModelMapper.to_db_item: the item, or the exception it raises
to_db_item(r) ==
    IF r.date.t # "date" THEN Raise("AttributeError")
    ELSE IF Truthy(r.metadata) /\ r.metadata.t # "dict" THEN Raise("TypeError")
    ELSE Dict(Merge(ItemFields(r),
                    IF Truthy(r.metadata) THEN r.metadata.v ELSE EmptyDict))

standard_fields ==
    {"PK", "SK", "country_code", "country_name", "indicator_id", "indicator_name",
     "value", "date", "unit", "frequency", "source", "year", "month", "day",
     "revision_number", "currency"}

\* DBModelMapper.from_db_item: the record, or the exception it raises
from_db_item(item) ==
    LET date_obj ==
            IF "date" \in DOMAIN item.v /\ item.v["date"].t = "str"
            THEN parse_date(item.v["date"].v)
            ELSE MakeDate(Get(item, "year", PyInt(2000)), Get(item, "month", PyInt(1)),
                          Get(item, "day", PyInt(1)))
        metadata == [k \in DOMAIN item.v \ standard_fields |-> item.v[k]]
    IN  IF IsRaise(date_obj) THEN date_obj
        ELSE EconomicData(Get(item, "country_code", None),
                          Get(item, "country_name", None),
                          Get(item, "indicator_id", None),
                          Get(item, "indicator_name", None),
                          Get(item, "value", Float(0)),
                          date_obj,
                          Get(item, "frequency", Str(<<"m", "o", "n", "t", "h", "l", "y">>)),
                          Get(item, "unit", Str(<<>>)),
                          Get(item, "source", Str(<<>>)),
                          Get(item, "revision_number", None),
                          Get(item, "currency", None),
                          Dict(metadata))

-----------------------------------------------------------------------------
(* Inputs *)

US == <<"U", "S">>

CL == <<"C", "L">>

USA == <<"U", "S", "A">>

Chile == <<"C", "h", "i", "l", "e">>

GDP == <<"G", "D", "P">>

IMP == <<"I", "M", "P">>

EXP == <<"E", "X", "P">>

Imports == <<"I", "m", "p", "o", "r", "t", "s">>

Exports == <<"E", "x", "p", "o", "r", "t", "s">>

Gdp == <<"G", "d", "p">>

monthly == <<"m", "o", "n", "t", "h", "l", "y">>

USD == <<"U", "S", "D">>

FRED == <<"F", "R", "E", "D">>

USPreprocessor == <<"U", "S", "P", "r", "e", "p", "r", "o", "c", "e", "s", "s", "o", "r">>

CountryName(cc) == IF cc = US THEN USA ELSE Chile

\* the dates of the inputs: a leap day and a year that needs zero padding among them
MapperDates == {Date(2024, 1, 1), Date(2024, 2, 29), Date(987, 12, 31)}

\* what a record carries as date when it is not a datetime.date: the ISO string
\* the repository puts there (economic_data_repository.py, date=row["date"])
NotADate == {Str(IsoFormat(Date(2024, 1, 1)))}

MetaKeys == {"processor", "original_data", "PK", "SK", "value", "date", "country_code", "year"}

MetaValues == {Str(<<"x">>), Float(99)}

\* flat metadata: every mapping of at most MaxMetaKeys of the keys; None; a list
MapperMetadata ==
    {None, List(<<Str(<<"x">>)>>)}
    \cup {Dict(f) : f \in UNION {[K -> MetaValues] :
                                   K \in {L \in SUBSET MetaKeys : Cardinality(L) <= MaxMetaKeys}}}

MapperRecords ==
    {EconomicData(Str(cc), Str(CountryName(cc)), Str(iid), Str(Gdp), Float(10), d,
                  Str(monthly), Str(USD), Str(FRED), rev, cur, md) :
        cc \in {US, CL}, iid \in {GDP, IMP}, d \in MapperDates \cup NotADate,
        rev \in {None, PyInt(1)}, cur \in {None, Str(USD)}, md \in MapperMetadata}

\* the longest country code and indicator id of the records for the keys
MaxKeyLen == 2

\* country codes and indicator ids made of the separator and a letter
KeyStrings == UNION {[1..n -> {"#", "A"}] : n \in 0..MaxKeyLen}

\* dates whose ISO strings differ in one digit only
KeyDates == {Date(2024, 1, 1), Date(2024, 1, 11), Date(2024, 11, 1)}

\* records that differ in the fields of the key only
KeyRecords ==
    {EconomicData(Str(cc), Str(USA), Str(iid), Str(Gdp), Float(10), d,
                  Str(monthly), Str(USD), Str(FRED), None, None, None) :
        cc \in KeyStrings, iid \in KeyStrings, d \in KeyDates}

\* the records the callers upload; the last one carries its date as a string
p1 == EconomicData(Str(US), Str(USA), Str(IMP), Str(Imports), Float(10), Date(2024, 1, 1),
                   Str(monthly), Str(USD), Str(FRED), None, Str(USD), None)

p2 == EconomicData(Str(US), Str(USA), Str(IMP), Str(Imports), Float(20), Date(2024, 2, 1),
                   Str(monthly), Str(USD), Str(FRED), PyInt(1), Str(USD),
                   Dict([processor |-> Str(USPreprocessor)]))

p3 == EconomicData(Str(US), Str(USA), Str(EXP), Str(Exports), Float(50), Date(2024, 1, 1),
                   Str(monthly), Str(USD), Str(FRED), None, Str(USD), None)

p4 == EconomicData(Str(US), Str(USA), Str(IMP), Str(Imports), Float(60), Date(2024, 1, 1),
                   Str(monthly), Str(USD), Str(FRED), PyInt(1), Str(USD), None)

p5 == EconomicData(Str(US), Str(USA), Str(GDP), Str(Gdp), Float(5),
                   Str(IsoFormat(Date(2024, 1, 1))),
                   Str(monthly), Str(USD), Str(FRED), None, None, None)

Pool == <<p1, p2, p3, p4, p5>>

PoolSet == {Pool[n] : n \in 1..Len(Pool)}

\* the well-formed records of the pool, repeated in order up to length n
Cyclic(n) == [k \in 1..n |-> Pool[((k - 1) % (Len(Pool) - 1)) + 1]]

-----------------------------------------------------------------------------
(* DynamoDBClient and AWSUploader *)

batch_size == 25

\* a guard that tests `data is None` instead: never true of a list
DataIsNone(d) == FALSE

\* `if not data`
NotData(d) == d = <<>>

\* the table's primary key of an item
ItemKey(item) == <<item.v["PK"], item.v["SK"]>>

\* Table.put_item: an item replaces the stored item of the same primary key
PutItem(tbl, item) == {x \in tbl : ItemKey(x) # ItemKey(item)} \cup {item}

\* the puts of a batch, in order
RECURSIVE PutItems(_, _)
PutItems(tbl, items) ==
    IF items = <<>> THEN tbl ELSE PutItems(PutItem(tbl, Head(items)), Tail(items))

\* a slice one item short: db_items[i:i + batch_size - 1]
ChunkOneShort(items, lo) ==
    SubSeq(items, lo + 1,
           IF lo + batch_size - 1 < Len(items) THEN lo + batch_size - 1 ELSE Len(items))

\* db_items[i:i + batch_size]
Chunk(items, lo) ==
    SubSeq(items, lo + 1, IF lo + batch_size < Len(items) THEN lo + batch_size ELSE Len(items))

\* a flag that is assigned each chunk's result: success = result
SuccessOfLastChunk(flag, result) == result = "true"

\* success after one chunk: `if not result: success = False`, and the except branch
SuccessAfter(flag, result) == IF result = "true" THEN flag ELSE FALSE

\* [self.model_mapper.to_db_item(item) for item in data]
MapItems(d) == [k \in 1..Len(d) |-> to_db_item(d[k])]

\* the short lists the callers upload: every list over the pool up to MaxLen
ShortInputs == UNION {[1..n -> PoolSet] : n \in 0..MaxLen}

\* the long lists: the cyclic lists of one or more full chunks and 0 or 1 more
\* records, or as many more as the longest list has
LongInputs ==
    {Cyclic(n) : n \in {m \in batch_size..MaxRecords :
                           m % batch_size \in {0, 1, MaxRecords % batch_size}}}

\* the calls made: a short list to the uploader or to the use case, a long list
\* to the uploader
UploadCalls ==
    {<<d, via>> : d \in ShortInputs, via \in {"uploader", "use_case"}}
    \cup {<<d, "uploader">> : d \in LongInputs}

\* the logical observation a record is about
Triple(r) == <<r.country_code, r.indicator_id, r.date>>

\* the last record written under each triple, after writing the records of recs in order
RECURSIVE Record(_, _)
Record(w, recs) ==
    IF recs = <<>> THEN w
    ELSE Record({x \in w : Triple(x) # Triple(Head(recs))} \cup {Head(recs)}, Tail(recs))

Idle ==
    /\ table = {}
    /\ economic_data = {}
    /\ conn = {}
    /\ pc = "ready"
    /\ op = [name |-> "none"]
    /\ data = <<>>
    /\ db_items = <<>>
    /\ i = 0
    /\ success = TRUE
    /\ calls = <<>>
    /\ ret = None
    /\ before = [table |-> {}, economic_data |-> {}]
    /\ written = {}

\* a caller enters upload(d), directly or through UploadToDatabaseUseCase.execute
Enter(d, via) ==
    /\ pc = "ready"
    /\ op' = [name |-> IF via = "use_case" THEN "execute" ELSE "upload"]
    /\ data' = d
    /\ before' = [table |-> table, economic_data |-> economic_data]

\* `return False` before anything is called
ReturnFalseAtOnce ==
    /\ ret' = Bool(FALSE)
    /\ pc' = "returned"
    /\ UNCHANGED <<backend, table, economic_data, conn, db_items, i, success, calls,
                   written>>
    /\ UNCHANGED <<mapperVars, processVars, mainVars>>

\* UploadToDatabaseUseCase.execute: `if not data: return False`, the uploader is
\* not called
UseCaseNoData ==
    \E c \in UploadCalls : LET d == c[1] via == c[2] IN
        /\ via = "use_case"
        /\ Enter(d, via)
        /\ NotData(d)
        /\ ReturnFalseAtOnce

\* AWSUploader.upload: `if not data: return False`
AwsUploadNoData ==
    \E c \in UploadCalls : LET d == c[1] via == c[2] IN
        /\ backend = "aws"
        /\ via = "uploader"
        /\ Enter(d, via)
        /\ NotData(d)
        /\ ReturnFalseAtOnce

\* SQLiteUploader.upload: `if not data: return False`
SqliteUploadNoData ==
    \E c \in UploadCalls : LET d == c[1] via == c[2] IN
        /\ backend = "sqlite"
        /\ via = "uploader"
        /\ Enter(d, via)
        /\ NotData(d)
        /\ ReturnFalseAtOnce

\* the use case's call of uploader.upload, when it is the caller
UploaderCall(via) == IF via = "use_case" THEN <<[fn |-> "upload"]>> ELSE <<>>

\* AWSUploader.upload up to the loop: the items are mapped
AwsUploadBegin ==
    \E c \in UploadCalls : LET d == c[1] via == c[2] items == MapItems(d) IN
        /\ backend = "aws"
        /\ Enter(d, via)
        /\ ~NotData(d)
        /\ \A k \in 1..Len(d) : ~IsRaise(items[k])
        /\ db_items' = items
        /\ calls' = UploaderCall(via)
        /\ success' = TRUE
        /\ pc' = "aws_loop"
        /\ UNCHANGED <<backend, table, economic_data, conn, i, ret, written>>
        /\ UNCHANGED <<mapperVars, processVars, mainVars>>

\* AWSUploader.upload when to_db_item raises: the list comprehension is outside
\* the try, so the exception leaves upload (and the use case re-raises it)
AwsUploadMapRaises ==
    \E c \in UploadCalls : LET d == c[1] via == c[2] items == MapItems(d) IN
        /\ backend = "aws"
        /\ Enter(d, via)
        /\ ~NotData(d)
        /\ \E k \in 1..Len(d) :
              /\ IsRaise(items[k])
              /\ \A j \in 1..(k - 1) : ~IsRaise(items[j])
              /\ ret' = items[k]
        /\ calls' = UploaderCall(via)
        /\ pc' = "returned"
        /\ UNCHANGED <<backend, table, economic_data, conn, db_items, i, success, written>>
        /\ UNCHANGED <<mapperVars, processVars, mainVars>>

\* one iteration: batch_write_items(batch) returns True, every item is put
AwsBatchWritten ==
    /\ pc = "aws_loop"
    /\ i < Len(db_items)
    /\ table' = PutItems(table, Chunk(db_items, i))
    /\ written' = Record(written, SubSeq(data, i + 1, i + Len(Chunk(db_items, i))))
    /\ calls' = Append(calls, [fn |-> "batch_write_items", items |-> Chunk(db_items, i),
                               result |-> "true"])
    /\ success' = SuccessAfter(success, "true")
    /\ i' = i + batch_size
    /\ UNCHANGED <<backend, economic_data, conn, pc, op, data, db_items, ret, before>>
    /\ UNCHANGED <<mapperVars, processVars, mainVars>>

\* one iteration: batch_write_items(batch) returns False (a ClientError inside the
\* client) or raises; the first w items of the batch may have been put
AwsBatchFails ==
    /\ pc = "aws_loop"
    /\ i < Len(db_items)
    /\ \E result \in {"false", "raise"}, w \in 0..(Len(Chunk(db_items, i)) - 1) :
          /\ table' = PutItems(table, SubSeq(Chunk(db_items, i), 1, w))
          /\ written' = Record(written, SubSeq(data, i + 1, i + w))
          /\ calls' = Append(calls, [fn |-> "batch_write_items",
                                     items |-> Chunk(db_items, i), result |-> result])
          /\ success' = SuccessAfter(success, result)
    /\ i' = i + batch_size
    /\ UNCHANGED <<backend, economic_data, conn, pc, op, data, db_items, ret, before>>
    /\ UNCHANGED <<mapperVars, processVars, mainVars>>

\* `return success`
AwsReturn ==
    /\ pc = "aws_loop"
    /\ i >= Len(db_items)
    /\ ret' = Bool(success)
    /\ pc' = "returned"
    /\ UNCHANGED <<backend, table, economic_data, conn, op, data, db_items, i, success,
                   calls, before, written>>
    /\ UNCHANGED <<mapperVars, processVars, mainVars>>

-----------------------------------------------------------------------------
(* SQLiteUploader *)

\* the types sqlite3 binds as parameters
Bindable(v) == v.t \in {"none", "int", "float", "str", "bool"}

\* pk = f"COUNTRY#{item.country_code}"
sqlite_pk(item) == Str(COUNTRY \o Format(item.country_code))

\* a sort key without the date: sk = f"INDICATOR#{item.indicator_id}"
sqlite_sk_without_date(item) == Str(INDICATOR \o Format(item.indicator_id))

\* sk = f"INDICATOR#{item.indicator_id}#{item.date.isoformat()}"
sqlite_sk(item) ==
    Str(INDICATOR \o Format(item.indicator_id) \o <<"#">> \o IsoFormat(item.date))

\* a value as a REAL column stores it
Real(v) == IF v.t = "int" THEN Float(v.v) ELSE v

\* the row the INSERT statement binds for a record
Row(item) ==
    [pk |-> sqlite_pk(item), sk |-> sqlite_sk(item),
     country_code |-> item.country_code, country_name |-> item.country_name,
     indicator_id |-> item.indicator_id, indicator_name |-> item.indicator_name,
     frequency |-> item.frequency, date |-> Str(IsoFormat(item.date)),
     value |-> Real(item.value), unit |-> item.unit, source |-> item.source,
     revision_number |-> item.revision_number, currency |-> item.currency]

\* the record itself makes the statement raise: a date without isoformat, or a
\* field sqlite3 cannot bind
RowRaises(item) ==
    \/ item.date.t # "date"
    \/ \E f \in StandardRecordFields \ {"date"} : ~Bindable(item[f])

\* INSERT OR REPLACE under PRIMARY KEY (pk, sk)
InsertOrReplace(rows, row) ==
    {x \in rows : ~(x.pk = row.pk /\ x.sk = row.sk)} \cup {row}

\* a connection that is closed without a commit
ConnClose(committed, pending, exception) == committed

\* sqlite3.Connection.__exit__: commit unless an exception leaves the with block
ConnExit(committed, pending, exception) == IF exception THEN committed ELSE pending

\* SQLiteUploader.upload up to the loop: the connection is opened
SqliteUploadBegin ==
    \E c \in UploadCalls : LET d == c[1] via == c[2] IN
        /\ Len(d) <= MaxLen
        /\ backend = "sqlite"
        /\ Enter(d, via)
        /\ ~NotData(d)
        /\ conn' = economic_data
        /\ calls' = UploaderCall(via)
        /\ pc' = "sqlite_loop"
        /\ UNCHANGED <<backend, table, economic_data, db_items, i, success, ret, written>>
        /\ UNCHANGED <<mapperVars, processVars, mainVars>>

\* one iteration: the row is inserted in the open transaction
SqliteInsert ==
    /\ pc = "sqlite_loop"
    /\ i < Len(data)
    /\ ~RowRaises(data[i + 1])
    /\ conn' = InsertOrReplace(conn, Row(data[i + 1]))
    /\ written' = Record(written, <<data[i + 1]>>)
    /\ calls' = Append(calls, [fn |-> "execute", row |-> i + 1, result |-> "ok"])
    /\ i' = i + 1
    /\ UNCHANGED <<backend, table, economic_data, pc, op, data, db_items, success, ret,
                   before>>
    /\ UNCHANGED <<mapperVars, processVars, mainVars>>

\* one iteration raises (the record, or the database, makes the statement fail):
\* the except branch returns False from inside the with block, which exits
\* without an exception
SqliteInsertRaises ==
    /\ pc = "sqlite_loop"
    /\ i < Len(data)
    /\ \E databaseError \in BOOLEAN : databaseError \/ RowRaises(data[i + 1])
    /\ calls' = Append(calls, [fn |-> "execute", row |-> i + 1, result |-> "raise"])
    /\ economic_data' = ConnExit(economic_data, conn, FALSE)
    /\ ret' = Bool(FALSE)
    /\ pc' = "returned"
    /\ UNCHANGED <<backend, table, conn, op, data, db_items, i, success, before, written>>
    /\ UNCHANGED <<mapperVars, processVars, mainVars>>

\* the loop ends: the with block exits and upload returns True
SqliteReturn ==
    /\ pc = "sqlite_loop"
    /\ i >= Len(data)
    /\ economic_data' = ConnExit(economic_data, conn, FALSE)
    /\ ret' = Bool(TRUE)
    /\ pc' = "returned"
    /\ UNCHANGED <<backend, table, conn, op, data, db_items, i, success, calls, before,
                   written>>
    /\ UNCHANGED <<mapperVars, processVars, mainVars>>

-----------------------------------------------------------------------------
(* EconomicDataRepository *)

\* SQLite's LIKE: % matches any run, _ any one character, letters match in either case
RECURSIVE Like(_, _)
Like(pattern, text) ==
    IF pattern = <<>> THEN text = <<>>
    ELSE IF pattern[1] = "%"
         THEN Like(Tail(pattern), text) \/ (text # <<>> /\ Like(pattern, Tail(text)))
    ELSE IF pattern[1] = "_"
         THEN text # <<>> /\ Like(Tail(pattern), Tail(text))
    ELSE /\ text # <<>>
         /\ LowerChar(pattern[1]) = LowerChar(text[1])
         /\ Like(Tail(pattern), Tail(text))

\* WHERE country_code = ? AND LOWER(indicator_name) LIKE ?
Matches(row, country_code, keyword) ==
    /\ row.country_code = Str(country_code)
    /\ row.indicator_name.t = "str"
    /\ Like(<<"%">> \o Lower(keyword) \o <<"%">>, Lower(row.indicator_name.v))

\* a scan with the dates ascending: ORDER BY indicator_id, date
ScanDateAscending(a, b) ==
    \/ StrLess(a.indicator_id.v, b.indicator_id.v)
    \/ a.indicator_id = b.indicator_id /\ StrLess(a.date.v, b.date.v)

\* ORDER BY indicator_id, date DESC: a comes before b
ScanBefore(a, b) ==
    \/ StrLess(a.indicator_id.v, b.indicator_id.v)
    \/ a.indicator_id = b.indicator_id /\ StrLess(b.date.v, a.date.v)

\* the rows of a result set in scan order
RECURSIVE Scan(_)
Scan(rows) ==
    IF rows = {} THEN <<>>
    ELSE LET first == CHOOSE x \in rows : \A y \in rows \ {x} : ~ScanBefore(y, x)
         IN  <<first>> \o Scan(rows \ {first})

\* the loop over the scan: the first row of each indicator_id, as an EconomicData
RECURSIVE FirstPerIndicator(_, _)
FirstPerIndicator(scan, seen) ==
    IF scan = <<>> THEN <<>>
    ELSE IF Head(scan).indicator_id \in seen THEN FirstPerIndicator(Tail(scan), seen)
    ELSE <<EconomicData(Head(scan).country_code, Head(scan).country_name,
                        Head(scan).indicator_id, Head(scan).indicator_name,
                        Head(scan).value, Head(scan).date, Head(scan).frequency,
                        Head(scan).unit, Head(scan).source, Head(scan).revision_number,
                        Head(scan).currency, None)>>
         \o FirstPerIndicator(Tail(scan), seen \cup {Head(scan).indicator_id})

\* a sort without reverse=True: a stays before b
ValueAscending(a, b) == a.value.v <= b.value.v

\* key=lambda x: x.value, reverse=True: a stays before b
ValueOrder(a, b) == a.value.v >= b.value.v

\* sorted(...): a stable insertion of x into the sorted list
RECURSIVE InsertSorted(_, _)
InsertSorted(sorted, x) ==
    IF sorted = <<>> THEN <<x>>
    ELSE IF ValueOrder(Head(sorted), x) THEN <<Head(sorted)>> \o InsertSorted(Tail(sorted), x)
    ELSE <<x>> \o sorted

RECURSIVE Sorted(_)
Sorted(list) ==
    IF list = <<>> THEN <<>>
    ELSE InsertSorted(Sorted(SubSeq(list, 1, Len(list) - 1)), list[Len(list)])

get_latest_by_indicator_name(rows, country_code, keyword) ==
    Sorted(FirstPerIndicator(
        Scan({row \in rows : Matches(row, country_code, keyword)}), {}))

port == <<"p", "o", "r", "t">>

import == <<"i", "m", "p", "o", "r", "t">>

exports == <<"e", "x", "p", "o", "r", "t", "s">>

IMPORT == <<"I", "M", "P", "O", "R", "T">>

\* keywords that hold the characters LIKE gives a meaning to
i_p == <<"i", "_", "p">>

percent == <<"%">>

Keywords == {port, import, exports, IMPORT, i_p, percent}

GetLatest ==
    \E country_code \in {US, CL}, keyword \in Keywords :
        /\ pc = "ready"
        /\ op' = [name |-> "get_latest", country_code |-> country_code,
                  keyword |-> keyword]
        /\ ret' = List(get_latest_by_indicator_name(economic_data, country_code, keyword))
        /\ pc' = "returned"
        /\ UNCHANGED <<backend, table, economic_data, conn, data, db_items, i, success,
                       calls, before, written>>
        /\ UNCHANGED <<mapperVars, processVars, mainVars>>

\* the caller is done with the result: the call's locals are gone, the connection
\* object is dropped, and the next call can be made
Forget ==
    /\ pc = "returned"
    /\ pc' = "ready"
    /\ op' = [name |-> "none"]
    /\ data' = <<>>
    /\ db_items' = <<>>
    /\ i' = 0
    /\ success' = TRUE
    /\ calls' = <<>>
    /\ ret' = None
    /\ conn' = {}
    /\ before' = [table |-> {}, economic_data |-> {}]
    /\ UNCHANGED <<backend, table, economic_data, written>>
    /\ UNCHANGED <<mapperVars, processVars, mainVars>>

-----------------------------------------------------------------------------
(* Raw payloads: the JSON-like values the fetchers hand to the preprocessors.    *)
(* A dict of a payload is Dict(<<k1, v1>>, <<k2, v2>>, ...): its entries in       *)
(* insertion order, the keys as strings of characters.                          *)

\* `k in d`
Has(d, k) == \E n \in 1..Len(d.v) : d.v[n][1] = k

\* d.get(k, default)
get(d, k, default) ==
    IF Has(d, k) THEN d.v[CHOOSE n \in 1..Len(d.v) : d.v[n][1] = k][2] ELSE default

\* mapping.get(key, default) for a key that is any Python value: a list or a dict
\* cannot be hashed
lookup(mapping, key, default) ==
    IF key.t \in {"list", "dict"} THEN Raise("TypeError")
    ELSE IF key.t = "str" THEN get(mapping, key.v, default)
    ELSE default

\* `for x in v` raises TypeError unless v is iterable
Iterable(v) == v.t \in {"list", "str", "dict"}

\* what `for x in v` iterates over
Iterate(v) ==
    CASE v.t = "list" -> v.v
      [] v.t = "str" -> [n \in 1..Len(v.v) |-> Str(<<v.v[n]>>)]
      [] v.t = "dict" -> [n \in 1..Len(v.v) |-> Str(v.v[n][1])]

\* the keys of the payloads
k_data == <<"d", "a", "t", "a">>

k_frequency == <<"f", "r", "e", "q", "u", "e", "n", "c", "y">>

k_units == <<"u", "n", "i", "t", "s">>

k_format == <<"f", "o", "r", "m", "a", "t">>

k_date == <<"d", "a", "t", "e">>

k_value == <<"v", "a", "l", "u", "e">>

k_revision == <<"r", "e", "v", "i", "s", "i", "o", "n">>

k_id == <<"i", "d">>

k_name == <<"n", "a", "m", "e">>

k_currency == <<"c", "u", "r", "r", "e", "n", "c", "y">>

k_unit == <<"u", "n", "i", "t">>

k_Period == <<"P", "e", "r", "i", "o", "d">>

k_Value == <<"V", "a", "l", "u", "e">>

k_Time == <<"T", "i", "m", "e">>

k_Rate == <<"R", "a", "t", "e">>

\* the strings of the lookup tables
Monthly == <<"M", "o", "n", "t", "h", "l", "y">>

Quarterly == <<"Q", "u", "a", "r", "t", "e", "r", "l", "y">>

Annual == <<"A", "n", "n", "u", "a", "l">>

quarterly == <<"q", "u", "a", "r", "t", "e", "r", "l", "y">>

yearly == <<"y", "e", "a", "r", "l", "y">>

gdp == <<"g", "d", "p">>

inflation == <<"i", "n", "f", "l", "a", "t", "i", "o", "n">>

unemployment == <<"u", "n", "e", "m", "p", "l", "o", "y", "m", "e", "n", "t">>

interest_rate == <<"i", "n", "t", "e", "r", "e", "s", "t", "_", "r", "a", "t", "e">>

billion_USD == <<"b", "i", "l", "l", "i", "o", "n", " ", "U", "S", "D">>

billion_EUR == <<"b", "i", "l", "l", "i", "o", "n", " ", "E", "U", "R">>

EUR == <<"E", "U", "R">>

CPI == <<"C", "P", "I">>

UNEMP == <<"U", "N", "E", "M", "P">>

INTRATE == <<"I", "N", "T", "R", "A", "T", "E">>

HICP == <<"H", "I", "C", "P">>

EURIBOR == <<"E", "U", "R", "I", "B", "O", "R">>

Gross_Domestic_Product == <<"G", "r", "o", "s", "s", " ", "D", "o", "m", "e", "s", "t", "i", "c", " ", "P", "r", "o", "d", "u", "c", "t">>

Consumer_Price_Index == <<"C", "o", "n", "s", "u", "m", "e", "r", " ", "P", "r", "i", "c", "e", " ", "I", "n", "d", "e", "x">>

Unemployment_Rate == <<"U", "n", "e", "m", "p", "l", "o", "y", "m", "e", "n", "t", " ", "R", "a", "t", "e">>

Federal_Funds_Rate == <<"F", "e", "d", "e", "r", "a", "l", " ", "F", "u", "n", "d", "s", " ", "R", "a", "t", "e">>

Harmonized_Index_of_Consumer_Prices == <<"H", "a", "r", "m", "o", "n", "i", "z", "e", "d", " ", "I", "n", "d", "e", "x", " ", "o", "f", " ", "C", "o", "n", "s", "u", "m", "e", "r", " ", "P", "r", "i", "c", "e", "s">>

Euro_Interbank_Offered_Rate == <<"E", "u", "r", "o", " ", "I", "n", "t", "e", "r", "b", "a", "n", "k", " ", "O", "f", "f", "e", "r", "e", "d", " ", "R", "a", "t", "e">>

United_States == <<"U", "n", "i", "t", "e", "d", " ", "S", "t", "a", "t", "e", "s">>

European_Union == <<"E", "u", "r", "o", "p", "e", "a", "n", " ", "U", "n", "i", "o", "n">>

US_Federal_Reserve == <<"U", "S", " ", "F", "e", "d", "e", "r", "a", "l", " ", "R", "e", "s", "e", "r", "v", "e">>

Banco_Central_de_Chile == <<"B", "a", "n", "c", "o", " ", "C", "e", "n", "t", "r", "a", "l", " ", "d", "e", " ", "C", "h", "i", "l", "e">>

European_Central_Bank == <<"E", "u", "r", "o", "p", "e", "a", "n", " ", "C", "e", "n", "t", "r", "a", "l", " ", "B", "a", "n", "k">>

ChilePreprocessor == <<"C", "h", "i", "l", "e", "P", "r", "e", "p", "r", "o", "c", "e", "s", "s", "o", "r">>

EUPreprocessor == <<"E", "U", "P", "r", "e", "p", "r", "o", "c", "e", "s", "s", "o", "r">>

csv == <<"c", "s", "v">>

html_table == <<"h", "t", "m", "l", "_", "t", "a", "b", "l", "e">>

period == <<"p", "e", "r", "i", "o", "d">>

time == <<"t", "i", "m", "e">>

rate == <<"r", "a", "t", "e">>

figure == <<"f", "i", "g", "u", "r", "e">>

-----------------------------------------------------------------------------
(* Source preprocessors: what one point and one metric of a payload come to *)

\* what the loop body does with one point: `continue`, append a record, or raise
Skip == [kind |-> "skip"]

Emit(r) == [kind |-> "record", record |-> r]

Abort(e) == [kind |-> "raise", exc |-> e]

\* the position of the first point whose processing raises, or 0
FirstRaise(outcomes) ==
    IF \E n \in 1..Len(outcomes) : outcomes[n].kind = "raise"
    THEN CHOOSE n \in 1..Len(outcomes) :
             /\ outcomes[n].kind = "raise"
             /\ \A m \in 1..(n - 1) : outcomes[m].kind # "raise"
    ELSE 0

\* the records appended by the points before position stop, in order
Appended(outcomes, stop) ==
    LET done == SelectSeq(SubSeq(outcomes, 1, stop - 1), LAMBDA o : o.kind = "record")
    IN  [n \in 1..Len(done) |-> done[n].record]

\* what a metric comes to: the records it adds to the output, and whether the
\* `except Exception` of process caught an exception of it
Metric(records, raised) == [records |-> records, raised |-> raised]

\* metadata that keeps the point under the name of a standard field
UnderValue(point, processor) == Dict([value |-> point, processor |-> Str(processor)])

\* metadata={"original_data": point, "processor": ...}
Traceability(point, processor) == Dict([original_data |-> point, processor |-> Str(processor)])

(* us_preprocessor *)

us_unit_mapping ==
    Dict(<< <<gdp, Str(billion_USD)>>, <<inflation, Str(<<"%">>)>>,
            <<unemployment, Str(<<"%">>)>>, <<interest_rate, Str(<<"%">>)>> >>)

us_frequency_mapping ==
    Dict(<< <<Monthly, Str(monthly)>>, <<Quarterly, Str(quarterly)>>,
            <<Annual, Str(yearly)>> >>)

us_indicator_mapping ==
    Dict(<< <<gdp, Dict(<< <<k_id, Str(GDP)>>, <<k_name, Str(Gross_Domestic_Product)>> >>)>>,
            <<inflation, Dict(<< <<k_id, Str(CPI)>>, <<k_name, Str(Consumer_Price_Index)>> >>)>>,
            <<unemployment, Dict(<< <<k_id, Str(UNEMP)>>, <<k_name, Str(Unemployment_Rate)>> >>)>>,
            <<interest_rate,
              Dict(<< <<k_id, Str(INTRATE)>>, <<k_name, Str(Federal_Funds_Rate)>> >>)>> >>)

us_currency_mapping ==
    Dict(<< <<gdp, Str(USD)>>, <<inflation, None>>, <<unemployment, None>>,
            <<interest_rate, None>> >>)

\* an indicator that takes the metric's name as it is
Verbatim(metric_name) ==
    Dict(<< <<k_id, Str(metric_name)>>, <<k_name, Str(metric_name)>> >>)

\* the default of indicator_mapping.get: the indicator made from the metric's name
Synthesized(metric_name) ==
    Dict(<< <<k_id, Str(Upper(metric_name))>>, <<k_name, Str(Capitalize(metric_name))>> >>)

\* lines 68-85: what the metric resolves to
us_resolved(metric_name, raw, frequency, indicator_info) ==
    IF IsRaise(frequency) THEN frequency
    ELSE [t |-> "metric", data_points |-> get(raw, k_data, List(<<>>)),
          frequency |-> frequency,
          unit |-> get(us_unit_mapping, metric_name, get(raw, k_units, Str(<<>>))),
          indicator_id |-> get(indicator_info, k_id, None),
          indicator_name |-> get(indicator_info, k_name, None),
          currency |-> get(us_currency_mapping, metric_name, None)]

\* us_preprocessor.process, lines 68-85: what the metric resolves to, or the
\* exception of a payload that is no dict
us_resolve(metric_name, raw) ==
    IF raw.t # "dict" THEN Raise("AttributeError")
    ELSE us_resolved(metric_name, raw,
                     lookup(us_frequency_mapping, get(raw, k_frequency, Str(Monthly)),
                            Str(monthly)),
                     get(us_indicator_mapping, metric_name, Synthesized(metric_name)))

\* lines 97-104: the date of a date string that is truthy
us_parse_date(date_str) ==
    IF date_str.t # "str" THEN Raise("TypeError")
    ELSE IF Contains(date_str.v, <<"-">>) THEN strptime(date_str.v, ISO)
    ELSE strptime(date_str.v, COMPACT)

\* lines 107-111: float(value_str), the point dropped on ValueError
us_parse_value(value_str) == float(value_str)

\* a point whose date and value were parsed: the ValueError of either drops the
\* point, another exception leaves the loop
OnParsed(date_obj, value, record) ==
    IF IsRaise(date_obj)
    THEN (IF date_obj.exc = "ValueError" THEN Skip ELSE Abort(date_obj.exc))
    ELSE IF IsRaise(value)
    THEN (IF value.exc = "ValueError" THEN Skip ELSE Abort(value.exc))
    ELSE Emit(record)

\* lines 113-132: the record of a point whose date and value were parsed
us_record(country_code, m, point, date_obj, value) ==
    OnParsed(date_obj, value,
             EconomicData(country_code, Str(United_States), m.indicator_id,
                          m.indicator_name, value, date_obj, m.frequency, m.unit,
                          Str(US_Federal_Reserve), get(point, k_revision, PyInt(0)),
                          m.currency, Traceability(point, USPreprocessor)))

\* lines 93-111: a point without a date or a value is passed over
us_fields(country_code, m, point, date_str, value_str) ==
    IF ~Truthy(date_str) \/ ~Truthy(value_str) THEN Skip
    ELSE us_record(country_code, m, point, us_parse_date(date_str),
                   us_parse_value(value_str))

\* lines 88-132: the body of the loop over the points
us_point(country_code, m, point) ==
    IF point.t # "dict" THEN Abort("AttributeError")
    ELSE us_fields(country_code, m, point, get(point, k_date, None),
                   get(point, k_value, None))

\* the points appended straight to the output (US, CL): those before a raising
\* point stay
AppendedUntil(outcomes, first_raise) ==
    IF first_raise = 0 THEN Metric(Appended(outcomes, Len(outcomes) + 1), FALSE)
    ELSE Metric(Appended(outcomes, first_raise), TRUE)

AppendEach(outcomes) == AppendedUntil(outcomes, FirstRaise(outcomes))

\* lines 87-132: the loop over the points of a resolved metric
us_points(country_code, m) ==
    IF IsRaise(m) THEN Metric(<<>>, TRUE)
    ELSE IF ~Iterable(m.data_points) THEN Metric(<<>>, TRUE)
    ELSE AppendEach([n \in 1..Len(Iterate(m.data_points)) |->
                        us_point(country_code, m, Iterate(m.data_points)[n])])

\* lines 67-135: the try block of one metric
us_metric(country_code, metric_name, raw) ==
    us_points(country_code, us_resolve(metric_name, raw))

(* cl_preprocessor *)

\* cl_preprocessor.process, lines 30-45; indicator_metadata is the content of
\* config/cl_indicator_metadata.json
cl_resolved(metric_name, raw, known, indicator_info) ==
    [t |-> "metric", data_points |-> get(raw, k_data, List(<<>>)),
     frequency |-> get(known, k_frequency, get(raw, k_frequency, Str(monthly))),
     unit |-> get(known, k_unit, get(raw, k_units, Str(<<>>))),
     indicator_id |-> get(indicator_info, k_id, Str(Upper(metric_name))),
     indicator_name |-> get(indicator_info, k_name, Str(Capitalize(metric_name))),
     currency |-> get(indicator_info, k_currency, None)]

cl_resolve(indicator_metadata, metric_name, raw) ==
    IF raw.t # "dict" THEN Raise("AttributeError")
    ELSE cl_resolved(metric_name, raw, get(indicator_metadata, metric_name, Dict(<<>>)),
                     get(indicator_metadata, metric_name,
                         Dict(<< <<k_id, Str(Upper(metric_name))>>,
                                 <<k_name, Str(Capitalize(metric_name))>>,
                                 <<k_currency, None>> >>)))

\* lines 56-60
cl_parse_date(date_str) ==
    IF date_str.t # "str" THEN Raise("TypeError") ELSE strptime(date_str.v, ISO)

\* lines 63-67
cl_parse_value(value_str) == float(value_str)

\* lines 69-88: the record of a point whose date and value were parsed
cl_record(country_code, m, point, date_obj, value) ==
    OnParsed(date_obj, value,
             EconomicData(country_code, Str(Chile), m.indicator_id, m.indicator_name,
                          value, date_obj, m.frequency, m.unit,
                          Str(Banco_Central_de_Chile), PyInt(0), m.currency,
                          Traceability(point, ChilePreprocessor)))

\* lines 52-67: a point without a date or a value is passed over
cl_fields(country_code, m, point, date_str, value_str) ==
    IF ~Truthy(date_str) \/ ~Truthy(value_str) THEN Skip
    ELSE cl_record(country_code, m, point, cl_parse_date(date_str),
                   cl_parse_value(value_str))

\* lines 48-88: the body of the loop over the points
cl_point(country_code, m, point) ==
    IF point.t # "dict" THEN Abort("AttributeError")
    ELSE cl_fields(country_code, m, point, get(point, k_date, None),
                   get(point, k_value, None))

\* lines 47-88: the loop over the points of a resolved metric
cl_points(country_code, m) ==
    IF IsRaise(m) THEN Metric(<<>>, TRUE)
    ELSE IF ~Iterable(m.data_points) THEN Metric(<<>>, TRUE)
    ELSE AppendEach([n \in 1..Len(Iterate(m.data_points)) |->
                        cl_point(country_code, m, Iterate(m.data_points)[n])])

\* lines 29-91: the try block of one metric
cl_metric(indicator_metadata, country_code, metric_name, raw) ==
    cl_points(country_code, cl_resolve(indicator_metadata, metric_name, raw))

(* eu_preprocessor *)

eu_unit_mapping ==
    Dict(<< <<gdp, Str(billion_EUR)>>, <<inflation, Str(<<"%">>)>>,
            <<unemployment, Str(<<"%">>)>>, <<interest_rate, Str(<<"%">>)>> >>)

eu_indicator_mapping ==
    Dict(<< <<gdp, Dict(<< <<k_id, Str(GDP)>>, <<k_name, Str(Gross_Domestic_Product)>> >>)>>,
            <<inflation,
              Dict(<< <<k_id, Str(HICP)>>,
                      <<k_name, Str(Harmonized_Index_of_Consumer_Prices)>> >>)>>,
            <<unemployment, Dict(<< <<k_id, Str(UNEMP)>>, <<k_name, Str(Unemployment_Rate)>> >>)>>,
            <<interest_rate,
              Dict(<< <<k_id, Str(EURIBOR)>>,
                      <<k_name, Str(Euro_Interbank_Offered_Rate)>> >>)>> >>)

eu_currency_mapping ==
    Dict(<< <<gdp, Str(EUR)>>, <<inflation, None>>, <<unemployment, None>>,
            <<interest_rate, None>> >>)

column_mappings ==
    Dict(<< <<gdp, [date_column |-> k_Period, value_column |-> k_Value]>>,
            <<inflation, [date_column |-> k_Time, value_column |-> k_Rate]>> >>)

\* datetime(year, month, 1).date() for ints: OverflowError for an argument that
\* is no C int, ValueError for one out of range
datetime(year, month) ==
    IF "huge" \in DOMAIN year \/ "huge" \in DOMAIN month THEN Raise("OverflowError")
    ELSE IF ~ValidDate(year.v, month.v, 1) THEN Raise("ValueError")
    ELSE Date(year.v, month.v, 1)

\* month = (quarter - 1) * 3 + 1, huge when it is beyond the C ints
FirstMonth(quarter) ==
    IF "huge" \in DOMAIN quarter THEN HugeInt
    ELSE IF quarter.v - 1 > (CIntMax - 1) \div 3 THEN HugeInt
    ELSE PyInt((quarter.v - 1) * 3 + 1)

\* date(year, month, 1) of the year and the quarter read by int()
quarter_of(year, quarter) ==
    IF IsRaise(year) THEN year
    ELSE IF IsRaise(quarter) THEN quarter
    ELSE datetime(year, FirstMonth(quarter))

\* eu_preprocessor._process_csv_data, lines 148-152: "2023Q1"
quarter_date(s) ==
    quarter_of(int(SubSeq(s, 1, IF Len(s) < 4 THEN Len(s) ELSE 4)),
               int(SubSeq(s, 6, Len(s))))

\* lines 141-157: the date of the date column
csv_parse_date(date_str) ==
    IF date_str.t # "str" THEN Raise("TypeError")
    ELSE IF Contains(date_str.v, <<"-">>) THEN strptime(date_str.v, ISO)
    ELSE IF Contains(date_str.v, <<"/">>) THEN strptime(date_str.v, DMY)
    ELSE IF Contains(date_str.v, <<"Q">>) THEN quarter_date(date_str.v)
    ELSE strptime(date_str.v, YEARMONTH)

\* value_str.replace(",", "").replace("%", "").strip()
cleaned_value(s) == Strip(Without(Without(s, ","), "%"))

\* the value float() gave, or on its ValueError that of the cleaned string
or_cleaned(value_str, value) ==
    IF value = Raise("ValueError") THEN ParseFloat(cleaned_value(value_str.v)) ELSE value

\* lines 160-169 and 235-244: float(value_str), and once more on the cleaned string
eu_parse_value(value_str) == or_cleaned(value_str, float(value_str))

\* `column in point` for a point that may be no dict
InPoint(point, column) ==
    CASE point.t = "dict" -> Has(point, column)
      [] point.t = "str" -> Contains(point.v, column)
      [] point.t = "list" -> \E n \in 1..Len(point.v) : point.v[n] = Str(column)
      [] OTHER -> Raise("TypeError")

\* lines 171-193: the record of a row whose date and value were parsed
csv_record(country_code, m, metric_name, point, date_str, date_obj, value) ==
    OnParsed(date_obj, value,
             EconomicData(country_code, Str(European_Union), m.indicator_id,
                          m.indicator_name, value, date_obj,
                          Str(IF Contains(date_str.v, <<"Q">>) THEN quarterly ELSE monthly),
                          get(eu_unit_mapping, metric_name, Str(<<>>)),
                          Str(European_Central_Bank), get(point, k_revision, PyInt(0)),
                          m.currency, Traceability(point, EUPreprocessor)))

\* lines 135-169: a row without the date or the value column is passed over
csv_fields(country_code, m, metric_name, point, date_col, value_col) ==
    IF point.t \notin {"dict", "str", "list"} THEN Abort("TypeError")
    ELSE IF ~InPoint(point, date_col) \/ ~InPoint(point, value_col) THEN Skip
    ELSE IF point.t # "dict" THEN Abort("TypeError")
    ELSE csv_record(country_code, m, metric_name, point, get(point, date_col, None),
                    csv_parse_date(get(point, date_col, None)),
                    eu_parse_value(get(point, value_col, None)))

\* the columns of the metric, or "date" and "value"
csv_columns(metric_name) ==
    get(column_mappings, metric_name, [date_column |-> k_date, value_column |-> k_value])

\* lines 134-193: the body of the loop of _process_csv_data
csv_point(country_code, m, metric_name, point) ==
    csv_fields(country_code, m, metric_name, point, csv_columns(metric_name).date_column,
               csv_columns(metric_name).value_column)

\* any(keyword in key.lower() for keyword in keywords)
AnyKeyword(key, keywords) == \E keyword \in keywords : Contains(Lower(key), keyword)

\* lines 207-215: the last value of the row under a key that names a date
RECURSIVE row_date(_, _)
row_date(items, date_str) ==
    IF items = <<>> THEN date_str
    ELSE IF AnyKeyword(Head(items)[1], {k_date, period, time})
         THEN row_date(Tail(items), Head(items)[2])
    ELSE row_date(Tail(items), date_str)

\* ... and the last value under a key that names no date but a value
RECURSIVE row_value(_, _, _)
row_value(items, metric_name, value_str) ==
    IF items = <<>> THEN value_str
    ELSE IF /\ ~AnyKeyword(Head(items)[1], {k_date, period, time})
            /\ AnyKeyword(Head(items)[1], {k_value, rate, figure, Lower(metric_name)})
         THEN row_value(Tail(items), metric_name, Head(items)[2])
    ELSE row_value(Tail(items), metric_name, value_str)

\* lines 221-232: the date of a row
table_parse_date(date_str) ==
    IF date_str.t # "str" THEN Raise("TypeError")
    ELSE IF Contains(date_str.v, <<"-">>) THEN strptime(date_str.v, ISO)
    ELSE IF Contains(date_str.v, <<"/">>) THEN strptime(date_str.v, DMY)
    ELSE strptime(date_str.v, YEARMONTH)

\* lines 246-265: the record of a row whose date and value were parsed
table_record(country_code, m, metric_name, point, date_obj, value) ==
    OnParsed(date_obj, value,
             EconomicData(country_code, Str(European_Union), m.indicator_id,
                          m.indicator_name, value, date_obj, Str(monthly),
                          get(eu_unit_mapping, metric_name, Str(<<>>)),
                          Str(European_Central_Bank), get(point, k_revision, PyInt(0)),
                          m.currency, Traceability(point, EUPreprocessor)))

\* lines 217-244: a row without a date or a value is passed over
table_fields(country_code, m, metric_name, point, date_str, value_str) ==
    IF ~Truthy(date_str) \/ ~Truthy(value_str) THEN Skip
    ELSE table_record(country_code, m, metric_name, point, table_parse_date(date_str),
                      eu_parse_value(value_str))

\* lines 207-265: the body of the loop of _process_table_data
table_point(country_code, m, metric_name, point) ==
    IF point.t # "dict" THEN Abort("AttributeError")
    ELSE table_fields(country_code, m, metric_name, point, row_date(point.v, None),
                      row_value(point.v, metric_name, None))

\* the result list a helper returns, handed to processed_data.extend: nothing of
\* the metric is added when a point raises
ExtendWith(outcomes) ==
    IF FirstRaise(outcomes) = 0 THEN Metric(Appended(outcomes, Len(outcomes) + 1), FALSE)
    ELSE Metric(<<>>, TRUE)

\* lines 99-103: a list of tables is flattened into one list of rows
RECURSIVE Flatten(_)
Flatten(tables) ==
    IF tables = <<>> THEN <<>> ELSE Head(tables).v \o Flatten(Tail(tables))

flattened(data_points) ==
    IF data_points.t = "list" /\ \A n \in 1..Len(data_points.v) : data_points.v[n].t = "list"
    THEN List(Flatten(data_points.v))
    ELSE data_points

\* lines 73-89: what the metric resolves to
eu_resolved(metric_name, raw, indicator_info) ==
    [t |-> "metric", data_format |-> get(raw, k_format, None),
     data_points |-> get(raw, k_data, List(<<>>)),
     indicator_id |-> get(indicator_info, k_id, None),
     indicator_name |-> get(indicator_info, k_name, None),
     currency |-> get(eu_currency_mapping, metric_name, None)]

\* eu_preprocessor.process, lines 73-89
eu_resolve(metric_name, raw) ==
    IF raw.t # "dict" THEN Raise("AttributeError")
    ELSE eu_resolved(metric_name, raw,
                     get(eu_indicator_mapping, metric_name, Synthesized(metric_name)))

\* lines 115-195: _process_csv_data over the rows
process_csv_data(country_code, m, metric_name, rows) ==
    ExtendWith([n \in 1..Len(rows) |-> csv_point(country_code, m, metric_name, rows[n])])

\* lines 197-267: _process_table_data over the flattened rows
process_table_data(country_code, m, metric_name, rows) ==
    ExtendWith([n \in 1..Len(rows) |-> table_point(country_code, m, metric_name, rows[n])])

\* lines 91-111: the helper of the metric's format
eu_rows(country_code, m, metric_name) ==
    IF IsRaise(m) THEN Metric(<<>>, TRUE)
    ELSE IF ~Truthy(m.data_points) THEN Metric(<<>>, FALSE)
    ELSE IF m.data_format = Str(csv)
    THEN (IF ~Iterable(m.data_points) THEN Metric(<<>>, TRUE)
          ELSE process_csv_data(country_code, m, metric_name, Iterate(m.data_points)))
    ELSE IF m.data_format = Str(html_table)
    THEN (IF ~Iterable(m.data_points) THEN Metric(<<>>, TRUE)
          ELSE process_table_data(country_code, m, metric_name,
                                  Iterate(flattened(m.data_points))))
    ELSE Metric(<<>>, FALSE)

\* lines 72-111: the try block of one metric
eu_metric(country_code, metric_name, raw) ==
    eu_rows(country_code, eu_resolve(metric_name, raw), metric_name)

-----------------------------------------------------------------------------
(* The payloads given to the preprocessors *)

EU == <<"E", "U">>

\* a point {"date": d, "value": v}
Point(d, v) == Dict(<< <<k_date, d>>, <<k_value, v>> >>)

g1 == Point(Str(<<"2", "0", "2", "4", "-", "0", "1", "-", "0", "1">>), Str(<<"1", "0">>))

g2 == Dict(<< <<k_date, Str(<<"2", "0", "2", "4", "-", "0", "2", "-", "0", "1">>)>>, <<k_value, Str(<<"2", "0">>)>>, <<k_revision, PyInt(1)>> >>)

\* date strings: malformed ones, ones of a format only some source accepts, and an
\* int, as a JSON payload can hold one
DateInputs ==
    <<Str(<<"n", "o", "t", "-", "a", "-", "d", "a", "t", "e">>),
      Str(<<>>),
      Str(<<"2", "0", "2", "4", "-", "1", "3", "-", "0", "1">>),
      Str(<<"2", "0", "2", "4", "-", "0", "1", "-", "0", "1", "x">>),
      Str(<<"2", "0", "2", "4", "-", "1", "-", "5">>),
      Str(<<"2", "0", "2", "4", "0", "1", "0", "1">>),
      Str(<<"0", "1", "/", "0", "2", "/", "2", "0", "2", "4">>),
      Str(<<"2", "0", "2", "4", "0", "1">>),
      Str(<<"2", "0", "2", "4", "Q", "2">>),
      Str(<<"2", "0", "2", "4", "Q", "5">>),
      Str(<<"2", "0", "2", "4", "Q", "9", "9", "9", "9", "9", "9", "9", "9", "9", "9", "9", "9", "9", "9", "9", "9", "9", "9", "9", "9">>),
      PyInt(20240101), None, PyInt(0)>>

\* value strings: with separators, not finite, no number, and the other JSON values,
\* the falsy ones among them
ValueInputs ==
    <<Str(<<"1", ",", "2", "3", "4", ".", "5", "%">>),
      Str(<<"n", "a", "n">>),
      Str(<<"i", "n", "f">>),
      Str(<<"-", "I", "n", "f", "i", "n", "i", "t", "y">>),
      Str(<<"a", "b", "c">>),
      Str(<<"1", "e", "9", "9", "9">>),
      Float(0), Float(12), None, List(<<PyInt(1)>>),
      PyInt(0), Str(<<"0">>), Str(<<>>), Bool(FALSE), Bool(TRUE), List(<<>>)>>

\* rows under other column names: the csv columns of gdp, and table rows with
\* more than one date and value column
gdp_row ==
    Dict(<< <<k_Period, Str(<<"2", "0", "2", "4", "-", "0", "1", "-", "0", "1">>)>>, <<k_Value, Str(<<"3">>)>>, <<k_revision, PyInt(2)>> >>)

table_row ==
    Dict(<< <<k_Period, Str(<<"2", "0", "2", "4", "-", "0", "2", "-", "0", "1">>)>>, <<k_date, Str(<<"2", "0", "2", "4", "-", "0", "1", "-", "0", "1">>)>>, <<k_Value, Str(<<"9">>)>>, <<gdp, Str(<<"3">>)>> >>)

rate_row == Dict(<< <<k_Time, Str(<<"2", "0", "2", "4", "-", "0", "3", "-", "0", "1">>)>>, <<k_Rate, Str(<<"4">>)>> >>)

\* a point with a date that is an int
int_date == Point(PyInt(20240101), Str(<<"7">>))

\* the points, numbered
Points ==
    <<g1, g2, gdp_row, table_row, rate_row>>
    \o [n \in 1..Len(DateInputs) |-> Point(DateInputs[n], Str(<<"7">>))]
    \o [n \in 1..Len(ValueInputs) |-> Point(Str(<<"2", "0", "2", "4", "-", "0", "3", "-", "0", "1">>), ValueInputs[n])]
    \o <<Dict(<< <<k_value, Str(<<"7">>)>> >>), Dict(<< <<k_date, Str(<<"2", "0", "2", "4", "-", "0", "3", "-", "0", "1">>)>> >>), None, Str(<<"x">>)>>

\* the points of which every data list up to MaxPoints is built
CorePoints == <<g1, g2, Point(Str(<<"n", "o", "t", "-", "a", "-", "d", "a", "t", "e">>), Str(<<"7">>)), int_date>>

\* data lists, named by a choice: every list of core points, each point alone, and
\* each point between two good points
DataChoices ==
    {<<"core", f>> : f \in UNION {[1..n -> 1..Len(CorePoints)] : n \in 0..MaxPoints}}
    \cup {<<"alone", n>> : n \in 1..Len(Points)}
    \cup {<<"between", n>> : n \in 1..Len(Points)}

DataList(c) ==
    CASE c[1] = "core" -> [k \in DOMAIN c[2] |-> CorePoints[c[2][k]]]
      [] c[1] = "alone" -> <<Points[c[2]]>>
      [] c[1] = "between" -> <<g1, Points[c[2]], g2>>

\* metrics that are no dict, hold no list of points or carry hints
OddMetrics ==
    <<None, Dict(<<>>), Dict(<< <<k_data, None>> >>),
      Dict(<< <<k_frequency, Str(Quarterly)>>, <<k_units, Str(<<"u">>)>>,
              <<k_data, List(<<g1>>)>> >>),
      Dict(<< <<k_frequency, List(<<>>)>>, <<k_data, List(<<g1>>)>> >>),
      Dict(<< <<k_format, Str(html_table)>>,
              <<k_data, List(<<List(<<g1, table_row>>), List(<<rate_row>>)>>)>> >>),
      Dict(<< <<k_format, Str(csv)>>, <<k_data, Str(<<"x">>)>> >>)>>

\* the formats a source of the variant delivers its data lists in
Formats(variant) == IF variant = "eu" THEN {csv, html_table} ELSE {<<>>}

\* a metric with the data list l, in format f
MetricOf(f, l) ==
    IF f = <<>> THEN Dict(<< <<k_data, List(l)>> >>)
    ELSE Dict(<< <<k_format, Str(f)>>, <<k_data, List(l)>> >>)

\* metrics, named by a choice
MetricChoices(variant) ==
    {<<"odd", n>> : n \in 1..Len(OddMetrics)}
    \cup {<<"list", f, c>> : f \in Formats(variant), c \in DataChoices}

MetricAt(c) == IF c[1] = "odd" THEN OddMetrics[c[2]] ELSE MetricOf(c[2], DataList(c[3]))

\* a metric that raises after a point it appended
Raising(variant) == {<<"list", f, <<"core", <<1, 4, 2>> >> >> : f \in Formats(variant)}

\* metric names beside those of the tables: the empty name and names of mixed case
MetricNames == << <<>>, <<"g", "D", "P">>, <<"T", "r", "a", "d", "e", "_", "B", "a", "l">> >>

\* payloads, named by a choice: one metric of each kind under a name the tables do
\* not know, some under a name they know, an odd metric or one that raises
\* midway, before a good metric or between two, and two good points under each of
\* the other names
PayloadChoices(variant) ==
    {<<"exports", m>> : m \in MetricChoices(variant)}
    \cup {<<"named", n, f>> : n \in 1..Len(MetricNames), f \in Formats(variant)}
    \cup {<<"gdp", m>> : m \in {<<"odd", n>> : n \in 1..Len(OddMetrics)}}
    \cup {<<"gdp", f>> : f \in Formats(variant)}
    \cup {<<"first", f, m>> : f \in Formats(variant),
            m \in {<<"odd", n>> : n \in 1..Len(OddMetrics)} \cup Raising(variant)}
    \cup {<<"middle", f, m>> : f \in Formats(variant),
            m \in {<<"odd", n>> : n \in 1..Len(OddMetrics)} \cup Raising(variant)}

Payload(c) ==
    CASE c[1] = "exports" -> Dict(<< <<exports, MetricAt(c[2])>> >>)
      [] c[1] = "gdp" /\ Len(c) = 2 /\ c[2] \in {<<>>, csv, html_table} ->
            Dict(<< <<gdp, MetricOf(c[2], <<g1, gdp_row, table_row>>)>> >>)
      [] c[1] = "gdp" -> Dict(<< <<gdp, MetricAt(c[2])>> >>)
      [] c[1] = "named" -> Dict(<< <<MetricNames[c[2]], MetricOf(c[3], <<g1, g2>>)>> >>)
      [] c[1] = "first" ->
            Dict(<< <<exports, MetricAt(c[3])>>, <<import, MetricOf(c[2], <<g2, g1>>)>> >>)
      [] c[1] = "middle" ->
            Dict(<< <<port, MetricOf(c[2], <<g1>>)>>, <<exports, MetricAt(c[3])>>,
                    <<import, MetricOf(c[2], <<g2, g1>>)>> >>)

\* config/cl_indicator_metadata.json: empty, or with an entry for a metric
IndicatorMetadata ==
    {Dict(<<>>),
     Dict(<< <<exports, Dict(<< <<k_id, Str(EXP)>>, <<k_name, Str(Exports)>>,
                                <<k_frequency, Str(quarterly)>>, <<k_unit, Str(USD)>>,
                                <<k_currency, Str(USD)>> >>)>> >>)}

\* the preprocessor instances and the country code each is called with, the empty
\* code among them
Preprocessors ==
    {[variant |-> "us", country_code |-> Str(US)], [variant |-> "eu", country_code |-> Str(EU)],
     [variant |-> "us", country_code |-> Str(<<>>)]}
    \cup {[variant |-> "cl", country_code |-> Str(CL), indicator_metadata |-> c] :
            c \in IndicatorMetadata}

-----------------------------------------------------------------------------
(* process(country_code, raw_data) *)

\* the try block of one metric, by variant
metric_outcome(p, country_code, metric_name, raw) ==
    CASE p.variant = "us" -> us_metric(country_code, metric_name, raw)
      [] p.variant = "cl" -> cl_metric(p.indicator_metadata, country_code, metric_name, raw)
      [] p.variant = "eu" -> eu_metric(country_code, metric_name, raw)

\* an order of the items that depends on the call
items_reversed_again(d) ==
    IF first_ret = None THEN d.v ELSE [n \in 1..Len(d.v) |-> d.v[Len(d.v) + 1 - n]]

\* raw_data.items(): the metrics in insertion order
items(d) == d.v

\* an exception that ends the loop over the metrics
LeaveLoop(index, n) == n

\* `except Exception`: logged, and the loop goes on with the next metric
AfterException(index, n) == index + 1

ProcessOff ==
    /\ preprocessor = None
    /\ pp_country_code = None
    /\ raw_data = None
    /\ processed_data = <<>>
    /\ metric_index = 0
    /\ metric_log = <<>>
    /\ pp_pc = "off"
    /\ pp_ret = None
    /\ first_ret = None

\* a preprocessor is about to be called with a payload
ProcessInit ==
    /\ preprocessor \in Preprocessors
    /\ pp_country_code = preprocessor.country_code
    /\ \E c \in PayloadChoices(preprocessor.variant) : raw_data = Payload(c)
    /\ processed_data = <<>>
    /\ metric_index = 0
    /\ metric_log = <<>>
    /\ pp_pc = "start"
    /\ pp_ret = None
    /\ first_ret = None

\* process is entered: processed_data = []
ProcessCall ==
    /\ pp_pc = "start"
    /\ processed_data' = <<>>
    /\ metric_index' = 0
    /\ metric_log' = <<>>
    /\ pp_pc' = "loop"
    /\ UNCHANGED <<preprocessor, pp_country_code, raw_data, pp_ret, first_ret>>
    /\ UNCHANGED <<storeVars, mapperVars, mainVars>>

\* the next metric of the loop
NextMetric ==
    LET item == items(raw_data)[metric_index + 1]
    IN  metric_outcome(preprocessor, pp_country_code, item[1], item[2])

\* the records a metric appended are in the output, whether it raised or not
TryBlock(outcome, raised, index) ==
    /\ outcome.raised = raised
    /\ processed_data' = processed_data \o outcome.records
    /\ metric_log' = Append(metric_log, outcome)
    /\ metric_index' = index
    /\ UNCHANGED <<preprocessor, pp_country_code, raw_data, pp_pc, pp_ret, first_ret>>
    /\ UNCHANGED <<storeVars, mapperVars, mainVars>>

\* one metric's try block runs to its end
MetricCompletes ==
    /\ pp_pc = "loop"
    /\ metric_index < Len(raw_data.v)
    /\ TryBlock(NextMetric, FALSE, metric_index + 1)

\* one metric's try block raises: the exception is logged
MetricRaises ==
    /\ pp_pc = "loop"
    /\ metric_index < Len(raw_data.v)
    /\ TryBlock(NextMetric, TRUE, AfterException(metric_index, Len(raw_data.v)))

\* return processed_data
ProcessReturn ==
    /\ pp_pc = "loop"
    /\ metric_index >= Len(raw_data.v)
    /\ pp_ret' = List(processed_data)
    /\ pp_pc' = "returned"
    /\ UNCHANGED <<preprocessor, pp_country_code, raw_data, processed_data, metric_index,
                   metric_log, first_ret>>
    /\ UNCHANGED <<storeVars, mapperVars, mainVars>>

\* the same instance is called once more with the same arguments
ProcessAgain ==
    /\ pp_pc = "returned"
    /\ first_ret = None
    /\ first_ret' = pp_ret
    /\ pp_ret' = None
    /\ pp_pc' = "start"
    /\ UNCHANGED <<preprocessor, pp_country_code, raw_data, processed_data, metric_index,
                   metric_log>>
    /\ UNCHANGED <<storeVars, mapperVars, mainVars>>

-----------------------------------------------------------------------------
(* The round trip through the mapper *)

MapperInit ==
    /\ mapper_arg \in MapperRecords \cup KeyRecords
    /\ mapper_item = None
    /\ mapper_ret = None
    /\ mapper_pc = "start"

MapperToDbItem ==
    /\ mapper_pc = "start"
    /\ mapper_item' = to_db_item(mapper_arg)
    /\ mapper_pc' = IF IsRaise(to_db_item(mapper_arg)) THEN "raised" ELSE "item"
    /\ UNCHANGED <<mapper_arg, mapper_ret>>
    /\ UNCHANGED <<storeVars, processVars, mainVars>>

MapperFromDbItem ==
    /\ mapper_pc = "item"
    /\ mapper_ret' = from_db_item(mapper_item)
    /\ mapper_pc' = "done"
    /\ UNCHANGED <<mapper_arg, mapper_item>>
    /\ UNCHANGED <<storeVars, processVars, mainVars>>

\* items as a store can hold them: the item of a record with its date attributes
\* left out or changed
ItemChanges ==
    {"as_written", "without_date", "other_year", "without_date_other_year",
     "without_date_and_year", "only_date", "date_not_iso", "date_int", "bare"}

Only(f, keys) == [k \in DOMAIN f \cap keys |-> f[k]]

Altered(item, change) ==
    CASE change = "as_written" -> item
      [] change = "without_date" -> Only(item, DOMAIN item \ {"date"})
      [] change = "other_year" -> Merge(item, [year |-> PyInt(1999)])
      [] change = "without_date_other_year" ->
            Merge(Only(item, DOMAIN item \ {"date"}), [year |-> PyInt(1999)])
      [] change = "without_date_and_year" -> Only(item, DOMAIN item \ {"date", "year"})
      [] change = "only_date" -> Only(item, DOMAIN item \ {"year", "month", "day"})
      [] change = "date_not_iso" -> Merge(item, [date |-> Str(<<"x">>)])
      [] change = "date_int" -> Merge(item, [date |-> PyInt(20240101)])
      [] change = "bare" -> Only(item, DOMAIN item \ {"date", "year", "month", "day"})

\* from_db_item is called with an item of the store
MapperFromStoredItem ==
    /\ mapper_pc = "item"
    /\ \E change \in ItemChanges :
          /\ mapper_item' = Dict(Altered(mapper_item.v, change))
          /\ mapper_ret' = from_db_item(Dict(Altered(mapper_item.v, change)))
    /\ mapper_pc' = "rebuilt"
    /\ UNCHANGED mapper_arg
    /\ UNCHANGED <<storeVars, processVars, mainVars>>

\* main is not running
MainOff ==
    /\ main_pc = "off"
    /\ uploader = "none"
    /\ ensured = FALSE
    /\ selected = <<>>
    /\ menu_raw_data = None
    /\ menu_processed_data = None
    /\ runs = 0
    /\ call_log = <<>>

-----------------------------------------------------------------------------
(* Specifications *)

\* the uploaders, the use case and the repository, under either backend
Init ==
    /\ backend \in {"aws", "sqlite"}
    /\ Idle
    /\ mapper_arg = None
    /\ mapper_item = None
    /\ mapper_ret = None
    /\ mapper_pc = "off"
    /\ ProcessOff
    /\ MainOff

Next ==
    \/ UseCaseNoData
    \/ AwsUploadNoData
    \/ SqliteUploadNoData
    \/ AwsUploadBegin
    \/ AwsUploadMapRaises
    \/ AwsBatchWritten
    \/ AwsBatchFails
    \/ AwsReturn
    \/ SqliteUploadBegin
    \/ SqliteInsert
    \/ SqliteInsertRaises
    \/ SqliteReturn
    \/ GetLatest
    \/ Forget

Spec == Init /\ [][Next]_vars

\* the mapper applied to each record of MapperRecords and of KeyRecords
InitMapper ==
    /\ backend = "aws"
    /\ Idle
    /\ MapperInit
    /\ ProcessOff
    /\ MainOff

NextMapper ==
    \/ MapperToDbItem
    \/ MapperFromDbItem
    \/ MapperFromStoredItem

SpecMapper == InitMapper /\ [][NextMapper]_vars

\* each preprocessor called, twice, with each payload
InitProcess ==
    /\ backend = "aws"
    /\ Idle
    /\ mapper_arg = None
    /\ mapper_item = None
    /\ mapper_ret = None
    /\ mapper_pc = "off"
    /\ ProcessInit
    /\ MainOff

NextProcess ==
    \/ ProcessCall
    \/ MetricCompletes
    \/ MetricRaises
    \/ ProcessReturn
    \/ ProcessAgain

SpecProcess == InitProcess /\ [][NextProcess]_vars

-----------------------------------------------------------------------------
(* Claims about the mapper, under SpecMapper *)

\* a record agrees with another on the eleven standard fields
SameStandardFields(a, b) == \A f \in StandardRecordFields : a[f] = b[f]

\* C1: for every record r with arbitrary flat metadata,
\* from_db_item(to_db_item(r)) equals r on each of the eleven standard fields.
C1_RoundTripStandardFields ==
    mapper_pc = "done" =>
        /\ ~IsRaise(mapper_ret)
        /\ SameStandardFields(mapper_ret, mapper_arg)

\* C2: whatever the record's metadata, the item written has PK "COUNTRY#" + country_code
\* and SK "INDICATOR#" + indicator_id + "#" + ISO(date), and the mapper's PK/SK equal
\* the pk/sk the relational uploader computes for the same record.
C2_KeysAsSpecified ==
    mapper_pc \in {"item", "done"} =>
        /\ mapper_item.v["PK"] = Str(COUNTRY \o mapper_arg.country_code.v)
        /\ mapper_item.v["SK"] =
               Str(INDICATOR \o mapper_arg.indicator_id.v \o <<"#">>
                   \o IsoFormat(mapper_arg.date))
        /\ mapper_item.v["PK"] = sqlite_pk(mapper_arg)
        /\ mapper_item.v["SK"] = sqlite_sk(mapper_arg)

-----------------------------------------------------------------------------
(* Claims about the uploaders and the repository, under Spec *)

\* the persisted items of the backend in use, as mappings from attribute to value
Stored == IF backend = "aws" THEN {x.v : x \in table} ELSE economic_data

\* a stored item is about the triple of record r
OfTriple(x, r) ==
    /\ x["country_code"] = r.country_code
    /\ x["indicator_id"] = r.indicator_id
    /\ x["date"] = Str(IsoFormat(r.date))

\* a stored item carries the standard-field values of record r
Carries(x, r) ==
    /\ OfTriple(x, r)
    /\ \A f \in StandardRecordFields \ {"date"} : x[f] = r[f]

\* an upload call has returned a boolean
UploadReturned ==
    /\ pc = "returned"
    /\ op.name \in {"upload", "execute"}
    /\ ret.t = "bool"

\* what a single upload of record r makes of the store that was there before
AfterOne(r) ==
    IF backend = "aws" THEN {x.v : x \in PutItem(before.table, to_db_item(r))}
    ELSE InsertOrReplace(before.economic_data, Row(r))

BatchCalls == SelectSeq(calls, LAMBDA c : c.fn = "batch_write_items")

RECURSIVE Concat(_)
Concat(batches) ==
    IF batches = <<>> THEN <<>> ELSE Head(batches).items \o Concat(Tail(batches))

Sizes(batches) == [n \in 1..Len(batches) |-> Len(batches[n].items)]

CeilDiv(n, d) == (n + d - 1) \div d

\* AWSUploader.upload has gone through its loop and returned
AwsLoopReturned == backend = "aws" /\ UploadReturned /\ data # <<>>

\* C4: upload of n >= 1 records makes exactly ceil(n/25) batch_write_items calls, all
\* of 25 items but the last, which carries the rest; the batches in call order make up
\* the mapped input list; 53 records give calls of 25, 25 and 3 items.
C4_ChunkingExact ==
    /\ (backend = "aws" /\ pc = "aws_loop") =>
          /\ Concat(BatchCalls) = SubSeq(db_items, 1, Len(Concat(BatchCalls)))
          /\ \A n \in 1..(Len(BatchCalls) - 1) : Len(BatchCalls[n].items) = batch_size
    /\ AwsLoopReturned =>
          /\ Len(BatchCalls) = CeilDiv(Len(data), batch_size)
          /\ \A n \in 1..(Len(BatchCalls) - 1) : Len(BatchCalls[n].items) = batch_size
          /\ Len(BatchCalls[Len(BatchCalls)].items)
                 = Len(data) - batch_size * (Len(BatchCalls) - 1)
          /\ Concat(BatchCalls) = MapItems(data)
          /\ Len(data) = 53 => Sizes(BatchCalls) = <<25, 25, 3>>

\* C4 witness: the upload of 53 records has returned after calls of 25, 25 and 3 items
C4_Witness ==
    /\ AwsLoopReturned
    /\ Len(data) = 53
    /\ Sizes(BatchCalls) = <<25, 25, 3>>

\* position in db_items of the j-th item of the n-th batch call
PositionOf(n, j) == (n - 1) * batch_size + j

\* C5: a chunk that returns false or raises does not stop the loop: every chunk is
\* attempted once, in order; the items of the chunks that succeeded stay stored (until
\* a later item of the same key replaces them); upload returns false exactly when
\* some chunk returned false or raised.
C5_BestEffortChunks ==
    AwsLoopReturned =>
        /\ Len(BatchCalls) = CeilDiv(Len(db_items), batch_size)
        /\ \A n \in 1..Len(BatchCalls) :
              BatchCalls[n].items = Chunk(db_items, (n - 1) * batch_size)
        /\ \A n \in 1..Len(BatchCalls) :
              BatchCalls[n].result = "true" =>
                  \A j \in 1..Len(BatchCalls[n].items) :
                      \/ BatchCalls[n].items[j] \in table
                      \/ \E k \in (PositionOf(n, j) + 1)..Len(db_items) :
                            /\ ItemKey(db_items[k]) = ItemKey(BatchCalls[n].items[j])
                            /\ db_items[k] \in table
        /\ (ret = Bool(FALSE)) <=> (\E n \in 1..Len(BatchCalls) : BatchCalls[n].result # "true")

\* C5 witness: the first chunk raised, the second was written, the third returned false
C5_Witness ==
    /\ AwsLoopReturned
    /\ ret = Bool(FALSE)
    /\ Len(BatchCalls) = 3
    /\ BatchCalls[1].result = "raise"
    /\ BatchCalls[2].result = "true"
    /\ BatchCalls[3].result = "false"
    /\ \A j \in 1..batch_size : \E x \in table : ItemKey(x) = ItemKey(BatchCalls[2].items[j])

\* C6: no exception raised while handling a record, the conversion to its item
\* included, leaves AWSUploader.upload: the call returns false instead.
C6_NoExceptionLeavesAwsUpload ==
    (backend = "aws" /\ pc = "returned" /\ op.name = "upload") =>
        /\ ~IsRaise(ret)
        /\ (\E k \in 1..Len(data) : IsRaise(to_db_item(data[k]))) => ret = Bool(FALSE)

\* the last backend call of the current operation was an INSERT that raised
LastInsertRaised ==
    /\ calls # <<>>
    /\ calls[Len(calls)].fn = "execute"
    /\ calls[Len(calls)].result = "raise"

\* C7: if inserting row k raises, SQLiteUploader.upload returns false at once, attempts
\* no later row, and commits none of the rows before k: the table is as before the call.
C7_SqliteNoPartialCommit ==
    (backend = "sqlite" /\ pc = "returned" /\ op.name \in {"upload", "execute"}
        /\ LastInsertRaised) =>
        /\ ret = Bool(FALSE)
        /\ \A n \in 1..(Len(calls) - 1) : calls[n].fn = "execute" => calls[n].result = "ok"
        /\ economic_data = before.economic_data

\* C8: upload([]) returns false on both uploaders and on the use case, without raising
\* and without any backend or uploader call; the store is unchanged.
C8_EmptyUploadReturnsFalse ==
    (pc = "returned" /\ op.name \in {"upload", "execute"} /\ data = <<>>) =>
        /\ ret = Bool(FALSE)
        /\ calls = <<>>
        /\ table = before.table
        /\ economic_data = before.economic_data

\* C8 witness: the use case has returned false for an empty list over a non-empty store
C8_Witness ==
    /\ pc = "returned"
    /\ op.name = "execute"
    /\ data = <<>>
    /\ ret = Bool(FALSE)
    /\ calls = <<>>
    /\ Stored # {}

\* a get_latest_by_indicator_name call has returned
GetLatestReturned == pc = "returned" /\ op.name = "get_latest"

\* the rows the call's WHERE clause selects
Selected == {row \in economic_data : Matches(row, op.country_code, op.keyword)}

\* a stored date string is a later calendar date than another
Later(a, b) ==
    LET da == FromIsoFormat(a.v)
        db == FromIsoFormat(b.v)
    IN  \/ da.year > db.year
        \/ da.year = db.year /\ da.month > db.month
        \/ da.year = db.year /\ da.month = db.month /\ da.day > db.day

\* C9: the result holds exactly one record for each indicator_id with a matching row of
\* the country, and it is the matching row of that indicator_id with the most recent
\* date; with imports rows of 2024-01-01 (10) and 2024-02-01 (20) it is the February one.
C9_LatestPerIndicator ==
    GetLatestReturned =>
        /\ \A row \in Selected :
              Cardinality({n \in 1..Len(ret.v) : ret.v[n].indicator_id = row.indicator_id}) = 1
        /\ \A n \in 1..Len(ret.v) :
              \E row \in Selected :
                  /\ \A f \in StandardRecordFields : ret.v[n][f] = row[f]
                  /\ \A other \in Selected :
                        other.indicator_id = row.indicator_id => ~Later(other.date, row.date)
        /\ (\E a, b \in Selected : Carries(a, p1) /\ Carries(b, p2)) =>
              \E n \in 1..Len(ret.v) :
                  /\ ret.v[n].indicator_id = Str(IMP)
                  /\ ret.v[n].date = Str(IsoFormat(Date(2024, 2, 1)))
                  /\ ret.v[n].value = Float(20)

\* C9 witness: both imports rows are stored and the call has returned the February one
C9_Witness ==
    /\ GetLatestReturned
    /\ \E a, b \in Selected : Carries(a, p1) /\ Carries(b, p2)
    /\ \E n \in 1..Len(ret.v) :
          ret.v[n].date = Str(IsoFormat(Date(2024, 2, 1))) /\ ret.v[n].value = Float(20)

\* C10: the returned list is ordered by value, non-increasing; with exports (50) and
\* imports (latest value 20) matching, it is [exports(50), imports(20)].
C10_SortedByValueDescending ==
    GetLatestReturned =>
        /\ \A n \in 1..(Len(ret.v) - 1) : ret.v[n].value.v >= ret.v[n + 1].value.v
        /\ ({row.indicator_id : row \in Selected} = {Str(EXP), Str(IMP)}
              /\ \E a, b \in Selected : Carries(a, p3) /\ Carries(b, p2)) =>
              /\ Len(ret.v) = 2
              /\ ret.v[1].indicator_id = Str(EXP) /\ ret.v[1].value = Float(50)
              /\ ret.v[2].indicator_id = Str(IMP) /\ ret.v[2].value = Float(20)

\* C10 witness: the call has returned [exports(50), imports(20)]
C10_Witness ==
    /\ GetLatestReturned
    /\ Len(ret.v) = 2
    /\ ret.v[1].indicator_id = Str(EXP) /\ ret.v[1].value = Float(50)
    /\ ret.v[2].indicator_id = Str(IMP) /\ ret.v[2].value = Float(20)

\* u occurs in s as a run of consecutive characters
Substring(u, s) ==
    \E k \in 0..(Len(s) - Len(u)) : SubSeq(s, k + 1, k + Len(u)) = u

\* the rows that hold the keyword literally, whatever the letters' case
LiteralMatches ==
    {row \in economic_data :
        /\ row.country_code = Str(op.country_code)
        /\ Substring(Lower(op.keyword), Lower(row.indicator_name.v))}

\* C11: a stored row contributes to the result of get_latest_by_indicator_name exactly
\* when its country_code is the argument and the keyword, letters' case aside, is a
\* literal substring of its indicator_name, for keywords holding % or _ too: the
\* indicators of the result are those of the rows that hold the keyword literally.
C11_LiteralSubstringMatch ==
    GetLatestReturned =>
        {ret.v[n].indicator_id : n \in 1..Len(ret.v)}
            = {row.indicator_id : row \in LiteralMatches}

\* the same claim for the keywords without % and _ (what the code does satisfy)
C11_PlainKeywords ==
    (GetLatestReturned /\ \A n \in 1..Len(op.keyword) : op.keyword[n] \notin {"%", "_"}) =>
        {ret.v[n].indicator_id : n \in 1..Len(ret.v)}
            = {row.indicator_id : row \in LiteralMatches}

-----------------------------------------------------------------------------
(* The metadata sidecar, under SpecMapper and Spec *)

\* the metadata of the record the round trip returned is that of the record given
SameMetadata ==
    /\ mapper_ret.metadata.t = mapper_arg.metadata.t
    /\ mapper_ret.metadata.t = "dict" =>
          /\ DOMAIN mapper_ret.metadata.v = DOMAIN mapper_arg.metadata.v
          /\ \A key \in DOMAIN mapper_arg.metadata.v :
                mapper_ret.metadata.v[key] = mapper_arg.metadata.v[key]

\* C19: to_db_item writes every metadata entry of r as a top-level attribute of the
\* item, from_db_item rebuilds metadata as the item attributes whose names are not in
\* the standard-field set, and so from_db_item(to_db_item(r)).metadata equals
\* r.metadata for every record r.
C19_MetadataRoundTrip ==
    mapper_pc = "done" => (~IsRaise(mapper_ret) /\ SameMetadata)

\* the same for the records whose metadata is a dict without a key of the
\* standard-field set (what the code does satisfy)
C19_WithoutStandardKeys ==
    (/\ mapper_pc = "done"
     /\ mapper_arg.metadata.t = "dict"
     /\ DOMAIN mapper_arg.metadata.v \cap standard_fields = {}) =>
        (~IsRaise(mapper_ret) /\ SameMetadata)

\* the item holds every metadata entry whose key is no standard field, and the
\* rebuilt metadata is the attributes outside the standard-field set
C19_SidecarAttributes ==
    (mapper_pc = "done" /\ ~IsRaise(mapper_ret)) =>
        /\ mapper_arg.metadata.t = "dict" =>
              \A key \in DOMAIN mapper_arg.metadata.v :
                  /\ key \in DOMAIN mapper_item.v
                  /\ mapper_item.v[key] = mapper_arg.metadata.v[key]
        /\ DOMAIN mapper_ret.metadata.v = DOMAIN mapper_item.v \ standard_fields

\* the records of the pool that have metadata entries
WithMetadata == {r \in PoolSet : r.metadata.t = "dict"}

\* every stored item of a record holds an attribute for each entry of its metadata
MetadataStored ==
    \A r \in WithMetadata : \A x \in Stored :
        Carries(x, r) =>
            \A key \in DOMAIN r.metadata.v :
                key \in DOMAIN x /\ x[key] = r.metadata.v[key]

\* a record read back is the stored form of record r
ReadBackOf(record, r) ==
    /\ record.country_code = r.country_code
    /\ record.indicator_id = r.indicator_id
    /\ record.date = Str(IsoFormat(r.date))
    /\ record.value = r.value
    /\ record.revision_number = r.revision_number

\* every record read back from the relational backend carries the metadata entries
\* of the record it was stored for
MetadataReadBack ==
    GetLatestReturned =>
        \A r \in WithMetadata : \A n \in 1..Len(ret.v) :
            ReadBackOf(ret.v[n], r) =>
                /\ ret.v[n].metadata.t = "dict"
                /\ \A key \in DOMAIN r.metadata.v :
                      /\ key \in DOMAIN ret.v[n].metadata.v
                      /\ ret.v[n].metadata.v[key] = r.metadata.v[key]

\* C20: on both backends the persisted item for a record r is a flat mapping holding
\* the standard fields of r plus one extra attribute for each entry of r.metadata;
\* the relational backend stores the metadata entries and a record read back from it
\* carries them.
C20_PersistedItemShape == MetadataStored /\ MetadataReadBack

\* the same for the key-value backend alone (what the code does satisfy)
C20_KeyValueItemShape == backend = "aws" => MetadataStored

\* a record with metadata is in the key-value store
C20_KeyValueStored == backend = "aws" /\ \E x \in Stored : Carries(x, p2)

-----------------------------------------------------------------------------
(* The preprocessors' output against their payload *)

\* the name and the raw structure of the k-th metric of the payload
NameOf(k) == raw_data.v[k][1]

RawOf(k) == raw_data.v[k][2]

\* the format hint of the k-th metric
FormatOf(k) == IF RawOf(k).t = "dict" THEN get(RawOf(k), k_format, None) ELSE None

\* the records of the output that the k-th metric added
RecordsOf(k) == metric_log[k].records

\* the point a record was made of
PointOf(record) == record.metadata.v.original_data

\* the field of a point of the k-th metric that the variant reads the date from
DateStringOf(k, point) ==
    CASE preprocessor.variant \in {"us", "cl"} -> get(point, k_date, None)
      [] FormatOf(k) = Str(csv) -> get(point, csv_columns(NameOf(k)).date_column, None)
      [] OTHER -> row_date(point.v, None)

\* the ways to write a month and a day of the month as a decimal number
MonthTexts(m) == {ZeroPad(m, 1), ZeroPad(m, 2)}

DayTexts(d) ==
    {ZeroPad(d, 1), ZeroPad(d, 2)} \cup (IF d < 10 THEN {<<" ">> \o ZeroPad(d, 1)} ELSE {})

\* the strings that are a date in a format: YYYY-MM-DD, YYYYMMDD, DD/MM/YYYY, YYYYMM
\* and YYYYQn, the last two for the first day of a month or of a quarter
Written(format, date) ==
    LET year == ZeroPad(date.year, 4)
    IN  CASE format = "YYYY-MM-DD" ->
                {year \o <<"-">> \o m \o <<"-">> \o d :
                    m \in MonthTexts(date.month), d \in DayTexts(date.day)}
          [] format = "YYYYMMDD" ->
                {year \o m \o d : m \in MonthTexts(date.month), d \in DayTexts(date.day)}
          [] format = "DD/MM/YYYY" ->
                {d \o <<"/">> \o m \o <<"/">> \o year :
                    m \in MonthTexts(date.month), d \in DayTexts(date.day)}
          [] format = "YYYYMM" ->
                IF date.day = 1 THEN {year \o m : m \in MonthTexts(date.month)} ELSE {}
          [] format = "YYYYQn" ->
                IF date.day = 1 /\ date.month \in {1, 4, 7, 10}
                THEN {year \o <<"Q">> \o ZeroPad((date.month - 1) \div 3 + 1, 1)}
                ELSE {}

\* the formats a variant accepts for the points of the k-th metric
AcceptedFormats(k) ==
    CASE preprocessor.variant = "us" -> {"YYYY-MM-DD", "YYYYMMDD"}
      [] preprocessor.variant = "cl" -> {"YYYY-MM-DD"}
      [] FormatOf(k) = Str(csv) -> {"YYYY-MM-DD", "DD/MM/YYYY", "YYYYQn", "YYYYMM"}
      [] OTHER -> {"YYYY-MM-DD", "DD/MM/YYYY", "YYYYMM"}

\* the output is what the metrics added, in their order
RECURSIVE AllRecords(_)
AllRecords(log) == IF log = <<>> THEN <<>> ELSE Head(log).records \o AllRecords(Tail(log))

\* C12: process never raises because of a point's date string, and a point whose date
\* string is malformed or matches none of the variant's accepted formats is absent
\* from the output: process returns the list of the records its metrics added, and
\* the date string of the point of each of them is a calendar date written in a
\* format the variant accepts, the date of the record.
C12_MalformedDateAbsent ==
    /\ processed_data = AllRecords(metric_log)
    /\ pp_pc = "returned" => pp_ret = List(processed_data)
    /\ \A k \in 1..Len(metric_log) : \A n \in 1..Len(RecordsOf(k)) :
          LET record == RecordsOf(k)[n]
              date_str == DateStringOf(k, PointOf(record))
          IN  /\ date_str.t = "str"
              /\ record.date.t = "date"
              /\ ValidDate(record.date.year, record.date.month, record.date.day)
              /\ \E format \in AcceptedFormats(k) : date_str.v \in Written(format, record.date)

\* the data list of the k-th metric is a good point, a point with the date string s
\* and another good point
DateBetween(k, s) ==
    /\ RawOf(k).t = "dict"
    /\ Has(RawOf(k), k_data)
    /\ get(RawOf(k), k_data, None).t = "list"
    /\ Len(get(RawOf(k), k_data, None).v) = 3
    /\ get(RawOf(k), k_data, None).v[2].t = "dict"
    /\ Has(get(RawOf(k), k_data, None).v[2], k_date)
    /\ get(get(RawOf(k), k_data, None).v[2], k_date, None) = Str(s)

\* C12 witness: process has returned the two records of the good points around a
\* point with the date "not-a-date"
C12_Witness ==
    /\ pp_pc = "returned"
    /\ Len(raw_data.v) = 1
    /\ DateBetween(1, <<"n", "o", "t", "-", "a", "-", "d", "a", "t", "e">>)
    /\ Len(pp_ret.v) = 2

\* the variant processes the k-th metric: the EU variant needs a format it knows
Handled(k) ==
    preprocessor.variant = "eu" => (FormatOf(k) = Str(csv) \/ FormatOf(k) = Str(html_table))

\* the points of the data list of the k-th metric, for the EU tables the rows
PointsOf(k) ==
    IF RawOf(k).t # "dict" THEN <<>>
    ELSE IF get(RawOf(k), k_data, List(<<>>)).t # "list" THEN <<>>
    ELSE IF preprocessor.variant = "eu" /\ FormatOf(k) = Str(html_table)
    THEN Iterate(flattened(get(RawOf(k), k_data, List(<<>>))))
    ELSE get(RawOf(k), k_data, List(<<>>)).v

\* the field of a point of the k-th metric that the variant reads the value from
ValueStringOf(k, point) ==
    CASE preprocessor.variant \in {"us", "cl"} -> get(point, k_value, None)
      [] FormatOf(k) = Str(csv) -> get(point, csv_columns(NameOf(k)).value_column, None)
      [] OTHER -> row_value(point.v, NameOf(k), None)

\* the date the variant reads from a date string
DateOf(k, date_str) ==
    CASE preprocessor.variant = "us" -> us_parse_date(date_str)
      [] preprocessor.variant = "cl" -> cl_parse_date(date_str)
      [] FormatOf(k) = Str(csv) -> csv_parse_date(date_str)
      [] OTHER -> table_parse_date(date_str)

\* a point of the k-th metric with a date string that is a date for the variant
ValidDateString(k, point) ==
    /\ point.t = "dict"
    /\ DateStringOf(k, point).t = "str"
    /\ DateStringOf(k, point).v # <<>>
    /\ ~IsRaise(DateOf(k, DateStringOf(k, point)))

\* two Python values are the same value
SameValue(a, b) == a.t = b.t /\ a = b

\* two points hold the same entries in the same order
SamePoint(p, q) ==
    /\ p.t = "dict" /\ q.t = "dict"
    /\ Len(p.v) = Len(q.v)
    /\ \A n \in 1..Len(p.v) : p.v[n][1] = q.v[n][1] /\ SameValue(p.v[n][2], q.v[n][2])

\* the variants of which the claim is stated
AllVariants == {"us", "cl", "eu"}

\* a point with a valid date and a value string that is a number once its thousands
\* separators and percent signs are stripped has a record with that number as value
CleanedValueKept(variants) ==
    \A k \in 1..Len(metric_log) :
        (preprocessor.variant \in variants /\ Handled(k) /\ ~metric_log[k].raised) =>
            \A n \in 1..Len(PointsOf(k)) :
                (/\ ValidDateString(k, PointsOf(k)[n])
                 /\ ValueStringOf(k, PointsOf(k)[n]).t = "str"
                 /\ ~IsRaise(ParseFloat(cleaned_value(ValueStringOf(k, PointsOf(k)[n]).v)))) =>
                    \E j \in 1..Len(RecordsOf(k)) :
                        /\ SamePoint(PointOf(RecordsOf(k)[j]), PointsOf(k)[n])
                        /\ RecordsOf(k)[j].value
                             = ParseFloat(cleaned_value(ValueStringOf(k, PointsOf(k)[n]).v))

\* C13: in every preprocessor variant a value string that float() rejects is retried
\* once after stripping "," and "%": a point with a valid date and the value
\* "1,234.5%" yields a record with the value 1234.5, and only a value that fails
\* after the cleanup too drops the point.
C13_ValueCleanupEveryVariant == CleanedValueKept(AllVariants)

\* the same for the EU variant alone (what the code does satisfy)
C13_ValueCleanupEu == CleanedValueKept({"eu"})

\* C14: every record emitted by any preprocessor has a finite value: a point whose
\* value parses to NaN, +inf or -inf ("nan", "inf", "-Infinity") is dropped and never
\* appears in the output of process.
C14_ValuesFinite ==
    \A n \in 1..Len(processed_data) :
        processed_data[n].value.t = "float" /\ IsFinite(processed_data[n].value)

\* the values of the output are floats (what the code does satisfy)
C14_ValuesAreFloats ==
    \A n \in 1..Len(processed_data) : processed_data[n].value.t = "float"

\* the records process returns for the k-th metric when no other metric is in the
\* payload
Alone(k) == metric_outcome(preprocessor, pp_country_code, NameOf(k), RawOf(k)).records

\* C15: if processing one metric of a payload raises, process does not raise and
\* returns, for every other metric of the payload, before or after the failing one,
\* exactly the records it returns for that metric when the failing metric is absent:
\* the call returns a list, every metric of the payload was processed, and the
\* output holds for each metric beside a failing one the records of that metric
\* alone, in the order of the metrics.
C15_PartialFailureIsolation ==
    pp_pc = "returned" =>
        /\ pp_ret = List(AllRecords(metric_log))
        /\ Len(metric_log) = Len(raw_data.v)
        /\ \A k \in 1..Len(raw_data.v) :
              (\E f \in 1..Len(raw_data.v) : f # k /\ metric_log[f].raised) =>
                  RecordsOf(k) = Alone(k)

\* C15 witness: the second of three metrics raised, and the call returned the one
\* record of the first metric and the two records of the third
C15_Witness ==
    /\ pp_pc = "returned"
    /\ Len(metric_log) = 3
    /\ metric_log[2].raised
    /\ Len(RecordsOf(1)) = 1
    /\ Len(RecordsOf(3)) = 2
    /\ Len(pp_ret.v) >= 3

\* what the k-th metric resolves to before its points are read
ResolvedOf(k) ==
    CASE preprocessor.variant = "us" -> us_resolve(NameOf(k), RawOf(k))
      [] preprocessor.variant = "cl" ->
            cl_resolve(preprocessor.indicator_metadata, NameOf(k), RawOf(k))
      [] OTHER -> eu_resolve(NameOf(k), RawOf(k))

\* what the loop body makes of a point of the k-th metric taken by itself
PointAlone(k, point) ==
    CASE preprocessor.variant = "us" -> us_point(pp_country_code, ResolvedOf(k), point)
      [] preprocessor.variant = "cl" -> cl_point(pp_country_code, ResolvedOf(k), point)
      [] FormatOf(k) = Str(csv) ->
            csv_point(pp_country_code, ResolvedOf(k), NameOf(k), point)
      [] OTHER -> table_point(pp_country_code, ResolvedOf(k), NameOf(k), point)

\* a point is not defective: by itself it produces a record
NonDefective(k, point) == PointAlone(k, point).kind = "record"

\* every non-defective point of the metrics in ks has its record in the output
NonDefectiveKept(ks) ==
    \A k \in ks :
        (Handled(k) /\ ~IsRaise(ResolvedOf(k))) =>
            \A n \in 1..Len(PointsOf(k)) :
                NonDefective(k, PointsOf(k)[n]) =>
                    \E j \in 1..Len(RecordsOf(k)) :
                        SamePoint(PointOf(RecordsOf(k)[j]), PointsOf(k)[n])

\* C16: a point-level defect (missing date or value field, date not parsable, value
\* not convertible to a float, including values or dates that are not strings)
\* removes only that one point: every non-defective point of the same metric, before
\* and after it, still produces its record.
C16_DefectRemovesOnlyThePoint == NonDefectiveKept(1..Len(metric_log))

\* the same for the metrics of which no point raised (what the code does satisfy)
C16_WhenNoPointRaises ==
    NonDefectiveKept({k \in 1..Len(metric_log) : ~metric_log[k].raised})

\* the surviving points of the k-th metric, in the order of its data list
Survivors(k) == SelectSeq(PointsOf(k), LAMBDA point : NonDefective(k, point))

\* the records of the metrics in ks are those of their surviving points, one for
\* one and in their order
OneRecordPerSurvivor(ks) ==
    \A k \in ks :
        (Handled(k) /\ ~IsRaise(ResolvedOf(k))) =>
            /\ Len(RecordsOf(k)) = Len(Survivors(k))
            /\ \A j \in 1..Len(RecordsOf(k)) :
                  /\ SamePoint(PointOf(RecordsOf(k)[j]), Survivors(k)[j])
                  /\ RecordsOf(k)[j] = PointAlone(k, Survivors(k)[j]).record

\* C17: for each metric the records process emits are in one-to-one, order-preserving
\* correspondence with the surviving points of the metric's data list: one record
\* per surviving point, in input point order, with no deduplication.
C17_OneRecordPerSurvivingPoint == OneRecordPerSurvivor(1..Len(metric_log))

\* the same for the metrics of which no point raised (what the code does satisfy)
C17_WhenNoPointRaises ==
    OneRecordPerSurvivor({k \in 1..Len(metric_log) : ~metric_log[k].raised})

\* two surviving points with the same date have yielded two records
C17_TwoRecordsOfOneDate ==
    /\ pp_pc = "returned"
    /\ Len(raw_data.v) = 1
    /\ Len(PointsOf(1)) = 2
    /\ Len(pp_ret.v) = 2
    /\ pp_ret.v[1].date = pp_ret.v[2].date

\* the same preprocessor has returned from a second call with the same arguments
ReturnedTwice == pp_pc = "returned" /\ first_ret # None

indicator_table ==
    CASE preprocessor.variant = "us" -> us_indicator_mapping
      [] preprocessor.variant = "cl" -> preprocessor.indicator_metadata
      [] OTHER -> eu_indicator_mapping

\* the k-th metric's name is in the lookup table
Known(k) == Has(indicator_table, NameOf(k))

\* a point of the k-th metric with a date and a value the variant reads
Readable(k, point) ==
    /\ ValidDateString(k, point)
    /\ Truthy(ValueStringOf(k, point))
    /\ ~IsRaise(float(ValueStringOf(k, point)))

\* C21: for every preprocessor variant, a metric name absent from the variant's
\* lookup table is still processed (each of its points with a date and a value the
\* variant reads has a record, unless the metric raised), and every record emitted
\* for it has indicator_id = metric_name.upper() and indicator_name =
\* metric_name.capitalize(); a known metric name gets the id and name of its
\* lookup-table entry.
C21_UnknownMetricFallback ==
    \A k \in 1..Len(metric_log) :
        /\ \A n \in 1..Len(RecordsOf(k)) :
              IF Known(k)
              THEN /\ RecordsOf(k)[n].indicator_id
                        = get(get(indicator_table, NameOf(k), None), k_id, None)
                   /\ RecordsOf(k)[n].indicator_name
                        = get(get(indicator_table, NameOf(k), None), k_name, None)
              ELSE /\ RecordsOf(k)[n].indicator_id = Str(Upper(NameOf(k)))
                   /\ RecordsOf(k)[n].indicator_name = Str(Capitalize(NameOf(k)))
        /\ (~Known(k) /\ Handled(k) /\ ~metric_log[k].raised) =>
              \A n \in 1..Len(PointsOf(k)) :
                  Readable(k, PointsOf(k)[n]) =>
                      \E j \in 1..Len(RecordsOf(k)) :
                          SamePoint(PointOf(RecordsOf(k)[j]), PointsOf(k)[n])

\* C21 witness: the metric "Trade_Bal", which no table knows, has come to two
\* records of the indicator "TRADE_BAL" named "Trade_bal"
C21_Witness ==
    /\ pp_pc = "returned"
    /\ Len(raw_data.v) = 1
    /\ NameOf(1) = MetricNames[3]
    /\ Len(pp_ret.v) = 2
    /\ pp_ret.v[1].indicator_id = Str(<<"T", "R", "A", "D", "E", "_", "B", "A", "L">>)
    /\ pp_ret.v[2].indicator_name = Str(<<"T", "r", "a", "d", "e", "_", "b", "a", "l">>)

\* a value is a string with a character in it
NonEmpty(x) == x.t = "str" /\ x.v # <<>>

\* C22: every record returned by process has a non-empty country_code and a
\* non-empty indicator_id, for every country_code argument and every payload
\* (including an empty country_code argument and an empty metric name).
C22_IdentityNeverEmpty ==
    \A n \in 1..Len(processed_data) :
        NonEmpty(processed_data[n].country_code) /\ NonEmpty(processed_data[n].indicator_id)

\* the country_code of every record is the argument as given, and its indicator_id
\* is not empty when the metric's name is not (what the code does satisfy)
C22_IdentityAsGiven ==
    \A k \in 1..Len(metric_log) : \A n \in 1..Len(RecordsOf(k)) :
        /\ RecordsOf(k)[n].country_code = pp_country_code
        /\ NameOf(k) # <<>> => NonEmpty(RecordsOf(k)[n].indicator_id)

-----------------------------------------------------------------------------
(* The date of an item, under SpecMapper *)

\* to_db_item has returned the item of mapper_arg
ItemReturned == mapper_pc \in {"item", "done"}

\* from_db_item has returned, or raised, for mapper_item
ItemRead == mapper_pc \in {"done", "rebuilt"}

\* the item holds a date string
HasDateString == "date" \in DOMAIN mapper_item.v /\ mapper_item.v["date"].t = "str"

\* the item's year, month and day are those of the record's date, next to its ISO
\* string
DateAttributesStored ==
    /\ SameValue(mapper_item.v["date"], Str(IsoFormat(mapper_arg.date)))
    /\ SameValue(mapper_item.v["year"], PyInt(mapper_arg.date.year))
    /\ SameValue(mapper_item.v["month"], PyInt(mapper_arg.date.month))
    /\ SameValue(mapper_item.v["day"], PyInt(mapper_arg.date.day))

\* the date of the record read is that of the item's ISO string when the item has
\* one, whatever its year, month and day, and that of its year, month and day
\* otherwise
DateStringFirst ==
    /\ (HasDateString /\ ~IsRaise(FromIsoFormat(mapper_item.v["date"].v))) =>
          /\ ~IsRaise(mapper_ret)
          /\ mapper_ret.date = FromIsoFormat(mapper_item.v["date"].v)
    /\ (/\ ~HasDateString
        /\ {"year", "month", "day"} \subseteq DOMAIN mapper_item.v
        /\ \A k \in {"year", "month", "day"} : mapper_item.v[k].t = "int"
        /\ ValidDate(mapper_item.v["year"].v, mapper_item.v["month"].v,
                     mapper_item.v["day"].v)) =>
          /\ ~IsRaise(mapper_ret)
          /\ mapper_ret.date = Date(mapper_item.v["year"].v, mapper_item.v["month"].v,
                                    mapper_item.v["day"].v)

\* C23: to_db_item stores year, month and day equal to the components of the
\* record's date next to the ISO date string; from_db_item takes the record's date
\* from the ISO date string whenever the item has one, ignoring year/month/day even
\* when they disagree, and builds the date from year/month/day only when the item
\* has no date string.
C23_DateStringPrecedence ==
    /\ ItemReturned => DateAttributesStored
    /\ ItemRead => DateStringFirst

\* the same, the first part for the records whose metadata has no key named like a
\* date attribute (what the code does satisfy)
C23_WithoutDateKeys ==
    /\ (/\ ItemReturned
        /\ (mapper_arg.metadata.t = "dict" =>
               DOMAIN mapper_arg.metadata.v \cap {"date", "year", "month", "day"} = {})) =>
          DateAttributesStored
    /\ ItemRead => DateStringFirst

\* an item with the date string of 2024 and the year 1999 was read as a record of 2024
C23_DisagreeingYearIgnored ==
    /\ mapper_pc = "rebuilt"
    /\ HasDateString
    /\ "year" \in DOMAIN mapper_item.v
    /\ SameValue(mapper_item.v["year"], PyInt(1999))
    /\ ~IsRaise(mapper_ret)
    /\ mapper_ret.date = Date(2024, 2, 29)

-----------------------------------------------------------------------------
(* main and country_menu: the interactive pipeline *)

\* most operations of the country menu one run of main starts
MaxRuns == 2

EXIT == <<"E", "X", "I", "T">>

\* config/countries_config.json: its keys, and the preprocessor of each country
available_countries == {US, EU}

PreprocessorOf(country) ==
    IF country = US THEN [variant |-> "us", country_code |-> Str(US)]
    ELSE [variant |-> "eu", country_code |-> Str(EU)]

\* what is typed at the prompt for the country
CountryInputs == available_countries \cup {EXIT, <<"X", "X">>}

\* what a fetcher returns for all the metrics (option "1") or for one (option "3")
MenuPayloads(country, option) ==
    IF option = "1"
    THEN {Dict(<<>>),
          Payload(<<"first", IF country = EU THEN csv ELSE <<>>, <<"odd", 1>> >>)}
    ELSE {Payload(<<"gdp", IF country = EU THEN csv ELSE <<>> >>)}

\* a call on a collaborator, as the run of the menu made it
Event(call, on, run, result, value) ==
    [call |-> call, on |-> on, run |-> run, result |-> result, value |-> value]

\* a check whose result is not looked at
CheckIgnored(result) == "menu"

\* main, lines 241-243: `if not uploader.check_connection(): return`
AfterCheck(result) == IF result THEN "menu" ELSE "ended"

\* a pipeline that goes on with the next step after an exception
CarriedOn(step) == IF step = "fetch" THEN "preprocess" ELSE "upload"

\* country_menu, lines 155-156 and 203-204: `except Exception` prints the error and
\* the menu is shown again
Caught(step) == "country"

\* the uploader main built at startup
StartupUploader(startup) == startup

\* country_menu, lines 147-148 and 195-196: uploader = SQLiteUploader(db_path)
PipelineUploader(startup) == "SQLiteUploader"

\* process(country_code, raw_data) as a whole: the records of the metrics in order
process(p, country_code, raw) ==
    IF raw.t # "dict" THEN Raise("AttributeError")
    ELSE List(AllRecords([k \in 1..Len(items(raw)) |->
                             metric_outcome(p, country_code, items(raw)[k][1],
                                            items(raw)[k][2])]))

\* the rows of the connection after the statements of the records before position stop
RECURSIVE RowsAfter(_, _, _)
RowsAfter(rows, d, stop) ==
    IF stop <= 1 THEN rows
    ELSE InsertOrReplace(RowsAfter(rows, d, stop - 1), Row(d[stop - 1]))

\* the statement of the k-th record raises
RowsRaiseAt(d, failing, k) == k = failing \/ RowRaises(d[k])

\* the position of the first statement that raises: that of a record that cannot
\* be bound or the one the database fails at, or 0
FirstFailing(d, failing) ==
    IF \E k \in 1..Len(d) : RowsRaiseAt(d, failing, k)
    THEN CHOOSE k \in 1..Len(d) :
             RowsRaiseAt(d, failing, k) /\ \A j \in 1..(k - 1) : ~RowsRaiseAt(d, failing, j)
    ELSE 0

\* SQLiteUploader.upload(d) as a whole: the committed rows and the result
sqlite_upload(rows, d, first_failing) ==
    IF NotData(d) THEN [rows |-> rows, result |-> "false"]
    ELSE IF first_failing = 0
    THEN [rows |-> ConnExit(rows, RowsAfter(rows, d, Len(d) + 1), FALSE), result |-> "true"]
    ELSE [rows |-> ConnExit(rows, RowsAfter(rows, d, first_failing), FALSE),
          result |-> "false"]

\* the list a use case is given, empty for a value that is falsy
ListOf(value) == IF value.t = "list" THEN value.v ELSE <<>>

\* main is started with DB_BACKEND set, or set to a backend it does not know
MainInit ==
    /\ main_pc = "start"
    /\ uploader = "none"
    /\ ensured \in BOOLEAN
    /\ selected = <<>>
    /\ menu_raw_data = None
    /\ menu_processed_data = None
    /\ runs = 0
    /\ call_log = <<>>

\* main, lines 218-238: the uploader of the backend is built; the constructor of
\* SQLiteUploader creates the table; an exception ends main (line 259)
BuildUploader ==
    /\ main_pc = "start"
    /\ \E built \in BOOLEAN :
          IF backend \notin {"aws", "sqlite"} \/ ~built
          THEN main_pc' = "ended" /\ UNCHANGED <<uploader, ensured>>
          ELSE /\ main_pc' = "check"
               /\ uploader' = IF backend = "aws" THEN "AWSUploader" ELSE "SQLiteUploader"
               /\ ensured' = (ensured \/ backend = "sqlite")
    /\ UNCHANGED <<selected, menu_raw_data, menu_processed_data, runs, call_log>>
    /\ UNCHANGED <<storeVars, mapperVars, processVars>>

\* main, lines 240-243: check_connection returns True or False (both uploaders
\* catch every exception of the check)
CheckConnection ==
    /\ main_pc = "check"
    /\ \E result \in BOOLEAN :
          /\ call_log' = Append(call_log, Event("check_connection", uploader, runs,
                                                IF result THEN "true" ELSE "false", None))
          /\ main_pc' = AfterCheck(result)
    /\ UNCHANGED <<uploader, ensured, selected, menu_raw_data, menu_processed_data, runs>>
    /\ UNCHANGED <<storeVars, mapperVars, processVars>>

\* main, lines 247-257: a country is selected, or "exit"; another input shows the
\* prompt again
SelectCountry ==
    /\ main_pc = "menu"
    /\ \E input \in CountryInputs :
          IF input = EXIT THEN main_pc' = "ended" /\ UNCHANGED selected
          ELSE IF input \notin available_countries THEN UNCHANGED <<main_pc, selected>>
          ELSE main_pc' = "country" /\ selected' = input
    /\ UNCHANGED <<uploader, ensured, menu_raw_data, menu_processed_data, runs, call_log>>
    /\ UNCHANGED <<storeVars, mapperVars, processVars>>

\* country_menu, lines 206-207: option "4"
BackToCountries ==
    /\ main_pc = "country"
    /\ main_pc' = "menu"
    /\ selected' = <<>>
    /\ menu_raw_data' = None
    /\ menu_processed_data' = None
    /\ UNCHANGED <<uploader, ensured, runs, call_log>>
    /\ UNCHANGED <<storeVars, mapperVars, processVars>>

\* country_menu, lines 158-162: option "2" reads the imports and the exports
\* through the repository; without the table the query raises and the exception
\* leaves country_menu (main, line 259)
RefreshTables ==
    /\ main_pc = "country"
    /\ runs < MaxRuns
    /\ runs' = runs + 1
    /\ IF ensured
       THEN /\ call_log' = call_log \o
                  <<Event("get_latest_by_indicator_name", "EconomicDataRepository",
                          runs + 1, "returned", Str(import)),
                    Event("get_latest_by_indicator_name", "EconomicDataRepository",
                          runs + 1, "returned", Str(exports))>>
            /\ UNCHANGED main_pc
       ELSE /\ call_log' = Append(call_log,
                  Event("get_latest_by_indicator_name", "EconomicDataRepository",
                        runs + 1, "raised", Str(import)))
            /\ main_pc' = "ended"
    /\ before' = [table |-> table, economic_data |-> economic_data]
    /\ UNCHANGED <<backend, table, economic_data, conn, pc, op, data, db_items, i, success,
                   calls, ret, written>>
    /\ UNCHANGED <<uploader, ensured, selected, menu_raw_data, menu_processed_data>>
    /\ UNCHANGED <<mapperVars, processVars>>

\* a pipeline run begins (options "1" and "3")
RunBegins ==
    /\ main_pc = "country"
    /\ runs < MaxRuns
    /\ runs' = runs + 1
    /\ before' = [table |-> table, economic_data |-> economic_data]
    /\ UNCHANGED <<backend, table, economic_data, conn, pc, op, data, db_items, i, success,
                   calls, ret, written>>
    /\ UNCHANGED <<uploader, ensured, selected>>
    /\ UNCHANGED <<mapperVars, processVars>>

\* country_menu, lines 137-143 and 186-191: fetch_use_case.execute returns raw_data
FetchReturns ==
    /\ RunBegins
    /\ \E option \in {"1", "3"} : \E raw \in MenuPayloads(selected, option) :
          /\ call_log' = Append(call_log, Event("fetch", "FetchCountryDataUseCase",
                                                runs + 1, "returned", raw))
          /\ menu_raw_data' = raw
    /\ main_pc' = "preprocess"
    /\ UNCHANGED menu_processed_data

\* ... the configuration, the fetcher or the metrics cannot be loaded, or
\* fetch_use_case.execute re-raises the exception of the fetcher
FetchRaises ==
    /\ RunBegins
    /\ \E called \in BOOLEAN :
          call_log' = IF called
                      THEN Append(call_log, Event("fetch", "FetchCountryDataUseCase",
                                                  runs + 1, "raised", None))
                      ELSE call_log
    /\ main_pc' = Caught("fetch")
    /\ UNCHANGED <<menu_raw_data, menu_processed_data>>

\* country_menu, lines 144-146 and 192-194: preprocess_use_case.execute returns
\* processed_data
PreprocessReturns ==
    /\ main_pc = "preprocess"
    /\ ~IsRaise(process(PreprocessorOf(selected), Str(selected), menu_raw_data))
    /\ menu_processed_data' = process(PreprocessorOf(selected), Str(selected), menu_raw_data)
    /\ call_log' = Append(call_log, Event("preprocess", "PreprocessDataUseCase", runs,
                                          "returned", menu_processed_data'))
    /\ main_pc' = "upload"
    /\ UNCHANGED <<uploader, ensured, selected, menu_raw_data, runs>>
    /\ UNCHANGED <<storeVars, mapperVars, processVars>>

\* ... the preprocessor cannot be created, or preprocess_use_case.execute re-raises
\* the exception of process
PreprocessRaises ==
    /\ main_pc = "preprocess"
    /\ \E created \in BOOLEAN :
          /\ created => IsRaise(process(PreprocessorOf(selected), Str(selected),
                                        menu_raw_data))
          /\ call_log' = IF created
                         THEN Append(call_log, Event("preprocess", "PreprocessDataUseCase",
                                                     runs, "raised", None))
                         ELSE call_log
    /\ main_pc' = Caught("preprocess")
    /\ UNCHANGED <<uploader, ensured, selected, menu_raw_data, menu_processed_data, runs>>
    /\ UNCHANGED <<storeVars, mapperVars, processVars>>

\* the calls of the upload step: UploadToDatabaseUseCase.execute(processed_data), and
\* inside it uploader.upload unless the list is empty
UploadEvents(on, d, result) ==
    <<Event("execute", "UploadToDatabaseUseCase", runs, result, List(d))>>
    \o (IF NotData(d) THEN <<>> ELSE <<Event("upload", on, runs, result, List(d))>>)

\* the upload of d by the uploader `on`; the statement at first_failing raises
UploadBy(on, d, first_failing) ==
    /\ call_log' = call_log \o UploadEvents(on, d, IF on = "SQLiteUploader"
                                                   THEN sqlite_upload(economic_data, d,
                                                                      first_failing).result
                                                   ELSE IF NotData(d) THEN "false"
                                                   ELSE "true")
    /\ economic_data' = IF on = "SQLiteUploader"
                        THEN sqlite_upload(economic_data, d, first_failing).rows
                        ELSE economic_data
    /\ table' = IF on = "SQLiteUploader" THEN table ELSE PutItems(table, MapItems(d))
    /\ ensured' = (ensured \/ on = "SQLiteUploader")

\* country_menu, lines 147-154 and 195-202: the uploader is built and
\* upload_use_case.execute(processed_data) returns
Upload ==
    /\ main_pc = "upload"
    /\ \E failing \in 0..Len(ListOf(menu_processed_data)) :
          UploadBy(PipelineUploader(uploader), ListOf(menu_processed_data),
                   FirstFailing(ListOf(menu_processed_data), failing))
    /\ main_pc' = "country"
    /\ UNCHANGED <<backend, conn, pc, op, data, db_items, i, success, calls, ret, before,
                   written>>
    /\ UNCHANGED <<uploader, selected, menu_raw_data, menu_processed_data, runs>>
    /\ UNCHANGED <<mapperVars, processVars>>

\* ... the uploader cannot be built or the database cannot be opened: nothing is
\* written
UploadRaises ==
    /\ main_pc = "upload"
    /\ main_pc' = "country"
    /\ UNCHANGED <<uploader, ensured, selected, menu_raw_data, menu_processed_data, runs,
                   call_log>>
    /\ UNCHANGED <<storeVars, mapperVars, processVars>>

\* main with either backend, the countries of the configuration and what the
\* fetchers return
InitMain ==
    /\ backend \in {"aws", "sqlite", "mongo"}
    /\ Idle
    /\ mapper_arg = None
    /\ mapper_item = None
    /\ mapper_ret = None
    /\ mapper_pc = "off"
    /\ ProcessOff
    /\ MainInit

NextMain ==
    \/ BuildUploader
    \/ CheckConnection
    \/ SelectCountry
    \/ BackToCountries
    \/ RefreshTables
    \/ FetchReturns
    \/ FetchRaises
    \/ PreprocessReturns
    \/ PreprocessRaises
    \/ Upload
    \/ UploadRaises

SpecMain == InitMain /\ [][NextMain]_vars

-----------------------------------------------------------------------------
(* Claims about main and country_menu, under SpecMain *)

\* the calls of a kind in the log
CallsOf(kinds) == SelectSeq(call_log, LAMBDA e : e.call \in kinds)

\* the check of the connection has returned false
CheckFailed ==
    \E n \in 1..Len(call_log) :
        call_log[n].call = "check_connection" /\ call_log[n].result = "false"

\* C24: if the uploader's check_connection returns false at startup
\* (check_connection itself never raises on the key-value uploader), the run ends
\* without retrying the check and without ever performing a fetch, a preprocess or
\* an upload: main has ended, the check is the one call it made, and nothing is in
\* either store.
C24_FailedCheckEndsRun ==
    CheckFailed =>
        /\ main_pc = "ended"
        /\ Len(call_log) = 1
        /\ runs = 0
        /\ table = {}
        /\ economic_data = {}

\* C24 witness: with DB_BACKEND=aws the check of the key-value uploader returned
\* false and main has ended
C24_Witness ==
    /\ backend = "aws"
    /\ CheckFailed
    /\ call_log[1].on = "AWSUploader"
    /\ main_pc = "ended"

\* the calls of the three steps that the r-th operation of the menu made
StepsOf(r) ==
    SelectSeq(call_log, LAMBDA e : e.run = r /\ e.call \in {"fetch", "preprocess", "execute"})

\* the steps are fetch, preprocess, upload in this order, each after the one before
\* it returned, and the upload is given what preprocess returned
InOrder(steps) ==
    /\ Len(steps) <= 3
    /\ Len(steps) >= 1 => steps[1].call = "fetch"
    /\ Len(steps) >= 2 => steps[1].result = "returned" /\ steps[2].call = "preprocess"
    /\ Len(steps) >= 3 =>
          /\ steps[2].result = "returned"
          /\ steps[3].call = "execute"
          /\ steps[3].value = steps[2].value

\* the run in progress has not come to its upload
BeforeUpload == \A n \in 1..Len(StepsOf(runs)) : StepsOf(runs)[n].call # "execute"

\* C25: in each pipeline run the steps happen strictly in the order fetch,
\* preprocess, upload: preprocess starts only after fetch has returned, upload starts
\* only after preprocess has returned and receives exactly the preprocess output,
\* and when the fetch or preprocess use case raises (they re-raise after logging) no
\* later step of that run is executed and nothing is written to the store.
C25_SequentialPipeline ==
    /\ \A r \in 1..runs : InOrder(StepsOf(r))
    /\ \A n \in 1..Len(call_log) :
          call_log[n].call = "upload" =>
              /\ n > 1
              /\ call_log[n - 1].call = "execute"
              /\ call_log[n - 1].run = call_log[n].run
    /\ BeforeUpload => (table = before.table /\ economic_data = before.economic_data)
    /\ main_pc = "preprocess" =>
          (StepsOf(runs) # <<>> /\ StepsOf(runs)[Len(StepsOf(runs))].result = "returned")
    /\ main_pc = "upload" => Len(StepsOf(runs)) = 2

\* C25 witness: the fetch of the first run raised and nothing more was called in it;
\* the second run came to an upload of two records that returned true
C25_Witness ==
    /\ runs = 2
    /\ Len(StepsOf(1)) = 1
    /\ StepsOf(1)[1].result = "raised"
    /\ Len(StepsOf(2)) = 3
    /\ StepsOf(2)[3].result = "true"
    /\ Len(StepsOf(2)[3].value.v) = 2
    /\ Cardinality(economic_data) = 2

\* C30: every write made by the interactive pipeline (country menu options 1 and 3)
\* goes through the relational SQLite uploader and every read through the SQLite
\* repository, whatever backend DB_BACKEND selected; with DB_BACKEND=aws the
\* key-value uploader built at startup is used only for the connection check and
\* never receives an upload call.
C30_PipelineUsesSqlite ==
    /\ \A n \in 1..Len(call_log) :
          /\ call_log[n].call = "upload" => call_log[n].on = "SQLiteUploader"
          /\ call_log[n].call = "get_latest_by_indicator_name" =>
                call_log[n].on = "EconomicDataRepository"
          /\ call_log[n].on = "AWSUploader" => call_log[n].call = "check_connection"
    /\ table = {}
    /\ economic_data # before.economic_data =>
          \E n \in 1..Len(call_log) :
              /\ call_log[n].call = "upload"
              /\ call_log[n].run = runs
              /\ call_log[n].on = "SQLiteUploader"

\* C30 witness: with DB_BACKEND=aws a run of the pipeline has written a row through
\* the SQLite uploader and the tables were read through the repository
C30_Witness ==
    /\ backend = "aws"
    /\ uploader = "AWSUploader"
    /\ economic_data # {}
    /\ CallsOf({"upload"}) # <<>>
    /\ CallsOf({"get_latest_by_indicator_name"}) # <<>>
    /\ call_log[Len(call_log)].result = "returned"

-----------------------------------------------------------------------------
(* The composite key, under SpecMapper *)

\* the records of the model that to_db_item gives an item for, one per key and
\* metadata (revision_number and currency are in no key)
Keyed ==
    {r \in MapperRecords \cup KeyRecords :
        /\ r.date.t = "date"
        /\ r.revision_number = None
        /\ r.currency = None
        /\ ~IsRaise(to_db_item(r))}

\* two items have the same PK and the same SK
SameKey(a, b) == SameValue(a.v["PK"], b.v["PK"]) /\ SameValue(a.v["SK"], b.v["SK"])

\* a record has no metadata entry named PK or SK
NoKeyMetadata(r) == r.metadata.t = "dict" => DOMAIN r.metadata.v \cap {"PK", "SK"} = {}

\* no record of the model with another triple has the key of the item
KeyOfOneTriple(others) ==
    \A r \in others : SameKey(to_db_item(r), mapper_item) => Triple(r) = Triple(mapper_arg)

\* C26: two records with different (country_code, indicator_id, date) never get the
\* same (PK, SK) pair, also when country_code or indicator_id contains "#".
C26_KeyInjective == mapper_pc = "item" => KeyOfOneTriple(Keyed)

\* the same for the records without a metadata entry named PK or SK (what the code
\* does satisfy)
C26_WithoutKeyMetadata ==
    (mapper_pc = "item" /\ NoKeyMetadata(mapper_arg)) =>
        KeyOfOneTriple({r \in Keyed : NoKeyMetadata(r)})

\* the key of the relational uploader, which reads no metadata, is that of one triple
C26_SqliteKeyInjective ==
    mapper_pc = "item" =>
        \A r \in Keyed :
            (sqlite_pk(r) = sqlite_pk(mapper_arg) /\ sqlite_sk(r) = sqlite_sk(mapper_arg)) =>
                Triple(r) = Triple(mapper_arg)

\* an item was made for a record whose indicator id ends with the separator
C26_SeparatorInKey ==
    /\ mapper_pc = "item"
    /\ mapper_arg.indicator_id = Str(<<"A", "#">>)
    /\ mapper_arg.country_code = Str(<<"#">>)
-----------------------------------------------------------------------------
(* What a true result of upload means, under Spec *)

\* the composite key the backend in use gives record r
KeyOfRecord(r) ==
    IF backend = "aws" THEN ItemKey(to_db_item(r)) ELSE <<sqlite_pk(r), sqlite_sk(r)>>

\* the composite key of a persisted item
KeyOfStored(x) == IF backend = "aws" THEN <<x["PK"], x["SK"]>> ELSE <<x.pk, x.sk>>

\* the position of the last record of d with the key of d[k]
LastCarrying(d, k) ==
    CHOOSE j \in k..Len(d) :
        /\ KeyOfRecord(d[j]) = KeyOfRecord(d[k])
        /\ \A m \in (j + 1)..Len(d) : KeyOfRecord(d[m]) # KeyOfRecord(d[k])

\* the store holds, under the key of d[k], the standard fields of the last record of d
\* with that key
Persisted(d, k) ==
    \E x \in Stored :
        /\ KeyOfStored(x) = KeyOfRecord(d[k])
        /\ Carries(x, d[LastCarrying(d, k)])

C27_LongListPersisted ==
    /\ UploadReturned
    /\ ret = Bool(TRUE)
    /\ backend = "aws"
    /\ Len(data) = MaxRecords
    /\ \A k \in 1..Len(data) : Persisted(data, k)
-----------------------------------------------------------------------------
(* The metadata of the preprocessors' records, under SpecProcess *)

\* two records agree on the eleven standard fields
SameFields(a, b) == \A f \in StandardRecordFields : SameValue(a[f], b[f])

\* the metadata of record r has the two keys of the preprocessors, none of them the
\* name of a standard field
TwoKeys(r) ==
    /\ r.metadata.t = "dict"
    /\ DOMAIN r.metadata.v = {"original_data", "processor"}
    /\ DOMAIN r.metadata.v \cap standard_fields = {}

\* the item of record r has the keys and the standard attributes to_db_item computes
\* from the fields
NothingOverridden(r, item) ==
    /\ ~IsRaise(item)
    /\ \A f \in DOMAIN ItemFields(r) : SameValue(item.v[f], ItemFields(r)[f])

\* the record read from the item of r has the standard fields of r
RoundTrip(r, back) == ~IsRaise(back) /\ SameFields(back, r)

\* C28: every record a preprocessor emits has metadata with exactly the keys
\* original_data and processor, neither in the mapper's standard-field set, so the
\* metadata overrides no key and no standard field in to_db_item and
\* from_db_item(to_db_item(r)) has the standard fields of r.
C28_PreprocessorMetadata ==
    \A k \in 1..Len(processed_data) :
        /\ TwoKeys(processed_data[k])
        /\ NothingOverridden(processed_data[k], to_db_item(processed_data[k]))
        /\ RoundTrip(processed_data[k], from_db_item(to_db_item(processed_data[k])))

\* C28 witness: the three preprocessors each returned records, that of the EU one with
\* the original row in its metadata
C28_Witness ==
    /\ pp_pc = "returned"
    /\ preprocessor.variant = "eu"
    /\ Len(processed_data) >= 2
    /\ TwoKeys(processed_data[1])
    /\ SameValue(processed_data[1].metadata.v["processor"], Str(EUPreprocessor))
    /\ RoundTrip(processed_data[1], from_db_item(to_db_item(processed_data[1])))
-----------------------------------------------------------------------------
(* The presence test of a point, under SpecProcess *)

\* the k-th metric resolves and is one point that is a mapping, read by the US or the
\* Chile variant or as a row of an EU html_table
OnePointTested(k) ==
    /\ Handled(k)
    /\ preprocessor.variant = "eu" => FormatOf(k) = Str(html_table)
    /\ ~IsRaise(ResolvedOf(k))
    /\ Len(PointsOf(k)) = 1
    /\ PointsOf(k)[1].t = "dict"

\* what became of the one point of the k-th metric
Observed(k) ==
    IF metric_log[k].raised THEN "raise"
    ELSE IF RecordsOf(k) # <<>> THEN "record"
    ELSE "skip"

\* what parsing makes of a point of the k-th metric whose date and value are read
Parsed(k, point, date_str, value_str) ==
    CASE preprocessor.variant = "us" ->
            us_record(pp_country_code, ResolvedOf(k), point, us_parse_date(date_str),
                      us_parse_value(value_str))
      [] preprocessor.variant = "cl" ->
            cl_record(pp_country_code, ResolvedOf(k), point, cl_parse_date(date_str),
                      cl_parse_value(value_str))
      [] OTHER ->
            table_record(pp_country_code, ResolvedOf(k), NameOf(k), point,
                         table_parse_date(date_str), eu_parse_value(value_str))

\* absent, None, the empty string or the number 0
Listed(v) ==
    \/ v.t = "none"
    \/ v.t = "str" /\ v.v = <<>>
    \/ v.t \in {"int", "float"} /\ "v" \in DOMAIN v /\ v.v = 0

\* absent or falsy: None, the empty string, the number 0, False, an empty list or
\* mapping
Falsy(v) == ~Truthy(v)

\* a point is passed over before parsing exactly when its date or its value is
\* missing in the sense of Missing, and is parsed otherwise
SkippedExactlyWhen(Missing(_)) ==
    \A k \in 1..Len(metric_log) :
        OnePointTested(k) =>
            IF \/ Missing(DateStringOf(k, PointsOf(k)[1]))
               \/ Missing(ValueStringOf(k, PointsOf(k)[1]))
            THEN Observed(k) = "skip"
            ELSE Observed(k) = Parsed(k, PointsOf(k)[1], DateStringOf(k, PointsOf(k)[1]),
                                      ValueStringOf(k, PointsOf(k)[1])).kind

\* the one point of the k-th metric has a valid date and the value v
ValuedAt(k, v) ==
    /\ OnePointTested(k)
    /\ ValidDateString(k, PointsOf(k)[1])
    /\ SameValue(ValueStringOf(k, PointsOf(k)[1]), v)

\* a numeric 0 with a valid date produces no record, the string "0" a record with
\* the value 0.0
ZeroAndZeroString ==
    \A k \in 1..Len(metric_log) :
        /\ (ValuedAt(k, PyInt(0)) \/ ValuedAt(k, Float(0))) => Observed(k) = "skip"
        /\ ValuedAt(k, Str(<<"0">>)) =>
              /\ Len(RecordsOf(k)) = 1
              /\ SameValue(RecordsOf(k)[1].value, Float(0))

\* C29: in the US and Chile preprocessors and the EU html_table path the presence test
\* is a truthiness test: a point is skipped before parsing exactly when its date or
\* value is falsy (absent, None, the empty string, the number 0, False, an empty list);
\* a numeric 0 with a valid date produces no record, the string "0" a record with the
\* value 0.0.
C29_FalsyPointsSkipped == SkippedExactlyWhen(Falsy) /\ ZeroAndZeroString

\* C29 as stated: a point is skipped before parsing exactly when its date or value is
\* absent, None, the empty string or the number 0.
C29_ListedPointsSkipped == SkippedExactlyWhen(Listed) /\ ZeroAndZeroString

\* C29 witness: the integer 0 with a valid date was passed over by the EU html_table
\* path
C29_Witness ==
    /\ pp_pc = "returned"
    /\ preprocessor.variant = "eu"
    /\ \E k \in 1..Len(metric_log) : ValuedAt(k, PyInt(0)) /\ Observed(k) = "skip"

\* the string "0" with a valid date gave a record of the US preprocessor
C29_ZeroStringKept ==
    /\ pp_pc = "returned"
    /\ preprocessor.variant = "us"
    /\ \E k \in 1..Len(metric_log) : ValuedAt(k, Str(<<"0">>)) /\ Len(RecordsOf(k)) = 1

\* an empty list as value was passed over although it is none of the listed values
C29_EmptyListSkipped ==
    /\ pp_pc = "returned"
    /\ \E k \in 1..Len(metric_log) : ValuedAt(k, List(<<>>)) /\ Observed(k) = "skip"
====
